---- MODULE Spec2Model ----
(***************************************************************************)
(* Verification model of the email-suggestion backend:                     *)
(*   - GmailApiService._get_body_text / _decode_base64  (payload decoder)  *)
(*   - GmailApiService.get_multiple_messages_metadata and the chunk loop   *)
(*     of routes/emails.py list_emails            (batch metadata fetch)   *)
(*   - routes/emails.py get_suggestions and LocalLlmService.get_suggestions*)
(*     / get_suggestions_with_context / _parse_suggestions   (pipeline)    *)
(* Three specifications share the module: SpecDecode, SpecBatch and Spec.  *)
(* Text is a sequence of one-character strings, or a record [lit |-> s]    *)
(* for a string literal of the source that is only ever compared whole.    *)
(***************************************************************************)
EXTENDS Integers, Sequences, FiniteSets, TLC

VARIABLES
    payload,        \* decoder: the message content tree handed to _get_body_text
    body_result,    \* decoder: NoResult, or the (body_text, is_html) tuple returned
    message_ids,    \* list_emails: identifiers returned by list_messages
    chunk_size,     \* list_emails: METADATA_BATCH_CHUNK_SIZE in use
    bpc,            \* list_emails: "loop", "execute" (inside batch.execute()), "done"
    chunk_i,        \* list_emails: the loop variable i of the chunk loop
    chunk_ids,      \* argument of the current get_multiple_messages_metadata call
    pending,        \* request ids of the batch whose callback has not run yet
    metadata_results,       \* get_multiple_messages_metadata: the dict being filled
    all_metadata_results,   \* list_emails: the merged dict
    emails,         \* list_emails: the returned list
    call_status,    \* outcome of the last batch call: "none", "returned", "raised"
    last_result,    \* the mapping the last batch call returned (empty if it raised)
    delivered,      \* what each callback of the current call was handed (history)
    chunk_log,      \* every batch call of the listing: ids, outcome, mapping (history)
    pc,             \* get_suggestions route: position of the request
    route,          \* the email route the request is for
    auth_status,    \* what check_auth_status returned: "unknown", "yes", "no"
    max_retries,    \* LocalLlmService.max_retries (configuration)
    details,        \* details of message X as get_message_details returned them
    is_reply,       \* route local is_reply
    thread_listing, \* what list_messages(thread_id=...) returned
    details_list,   \* the fetched and sorted thread messages
    thread_context, \* route local thread_context (header and blocks; NoContext = "")
    user_email,     \* what get_user_email returned to the self-reply check
    calls,          \* collaborator calls made for this request, in order (history)
    responses,      \* what the request handed back to the caller (history)
    llm_state,      \* suggestion call: "idle", "attempt", "done", "failed", "raised"
    llm_mode,       \* "none", "get_suggestions", "get_suggestions_with_context"
    attempt,        \* loop variable of the retry loop
    post_count,     \* requests.post calls issued by the suggestion call
    sleep_log,      \* the delays time.sleep was called with
    n_transient,    \* attempts that ended in a transport exception (history)
    n_empty,        \* attempts that answered without any suggestion (history)
    last_raw,       \* the response text of the last answered attempt (history)
    llm_result,     \* the list the suggestion call returned
    llm_error,      \* the exception the suggestion call raised
    prompt,         \* the prompt formatted before the retry loop
    last_sent,      \* payload["prompt"] of the most recent requests.post
    llm_config,     \* the [Ollama] section handed to LocalLlmService(config_manager)
    llm_client,     \* what the constructor produced: an instance or ConfigError
    numbered_items, \* _parse_suggestions: the numbered lines of the text parsed
    parse_result,   \* _parse_suggestions: the list returned
    env_content,    \* os.environ: GOOGLE_CLIENT_SECRET_JSON_CONTENT
    env_path,       \* os.environ: GOOGLE_CLIENT_SECRET_JSON_PATH
    secrets_file,   \* the file the path variable names
    secrets_result  \* _load_client_secrets_from_env: returned value or exception

decodeVars == <<payload, body_result>>

batchVars == <<message_ids, chunk_size, bpc, chunk_i, chunk_ids, pending, metadata_results,
               all_metadata_results, emails, call_status, last_result, delivered,
               chunk_log>>

llmVars == <<llm_state, llm_mode, attempt, post_count, sleep_log, n_transient, n_empty,
             last_raw, llm_result, llm_error, prompt, last_sent>>

routeVars == <<pc, route, auth_status, max_retries, details, is_reply, thread_listing, details_list,
               thread_context, user_email, calls, responses>>

pipeVars == <<routeVars, llmVars>>

funcVars == <<numbered_items, parse_result, env_content, env_path, secrets_file,
              secrets_result, llm_config, llm_client>>

vars == <<decodeVars, batchVars, pipeVars, funcVars>>

(***************************************************************************)
(* Python values shared by the components.                                 *)
(***************************************************************************)
\* A str value: decoded text (code points), a literal of the source, or None.
None == [k |-> "none", cps |-> <<>>, lit |-> ""]

Str(c) == [k |-> "str", cps |-> c, lit |-> ""]

Lit(s) == [k |-> "lit", cps |-> <<>>, lit |-> s]

EmptyText == Str(<<>>)

NoResult == [done |-> FALSE, text |-> None, is_html |-> FALSE]

\* Python truthiness of an Optional[str]
Truthy(t) == t # None /\ t # EmptyText /\ t # Lit("")

Min(a, b) == IF a < b THEN a ELSE b

Elems(seq) == { seq[j] : j \in 1..Len(seq) }

\* A Python dict: the sequence of its items [k, v] in insertion order.
DictKeys(dict) == { dict[j].k : j \in 1..Len(dict) }

DictGet(dict, key) == (CHOOSE j \in 1..Len(dict) : dict[j].k = key)

DictValue(dict, key) == dict[DictGet(dict, key)].v

DictSet(dict, key, value) ==
    IF key \in DictKeys(dict)
    THEN [dict EXCEPT ![DictGet(dict, key)] = [k |-> key, v |-> value]]
    ELSE Append(dict, [k |-> key, v |-> value])

(***************************************************************************)
(* _decode_base64: URL-safe base64 with padding, UTF-8 with a Latin-1      *)
(* fallback.  Data is a sequence of characters of the URL-safe alphabet;   *)
(* decoded text is a sequence of code points.                              *)
(***************************************************************************)
B64Chars ==
    <<"A","B","C","D","E","F","G","H","I","J","K","L","M","N","O","P",
      "Q","R","S","T","U","V","W","X","Y","Z","a","b","c","d","e","f",
      "g","h","i","j","k","l","m","n","o","p","q","r","s","t","u","v",
      "w","x","y","z","0","1","2","3","4","5","6","7","8","9","-","_">>

B64Value(c) == (CHOOSE i \in 1..Len(B64Chars) : B64Chars[i] = c) - 1

\* padded_data = data + "=" * (4 - len(data) % 4) if len(data) % 4 else data
PadCount(data) == IF Len(data) % 4 # 0 THEN 4 - (Len(data) % 4) ELSE 0

RECURSIVE B64Bytes(_)
\* base64.urlsafe_b64decode on the data characters (padding already counted):
\* each full group of four gives three bytes, a tail of three gives two
\* bytes, a tail of two gives one byte.
B64Bytes(data) ==
    IF Len(data) >= 4
    THEN LET v1 == B64Value(data[1])
             v2 == B64Value(data[2])
             v3 == B64Value(data[3])
             v4 == B64Value(data[4])
         IN <<v1 * 4 + (v2 \div 16),
              (v2 % 16) * 16 + (v3 \div 4),
              (v3 % 4) * 64 + v4>> \o B64Bytes(SubSeq(data, 5, Len(data)))
    ELSE IF Len(data) = 3
    THEN LET v1 == B64Value(data[1])
             v2 == B64Value(data[2])
             v3 == B64Value(data[3])
         IN <<v1 * 4 + (v2 \div 16), (v2 % 16) * 16 + (v3 \div 4)>>
    ELSE IF Len(data) = 2
    THEN <<B64Value(data[1]) * 4 + (B64Value(data[2]) \div 16)>>
    ELSE <<>>

RECURSIVE Utf8Valid(_)
\* bytes.decode("utf-8") succeeds: one-byte and two-byte forms (the data
\* alphabet of the model produces no longer form).
Utf8Valid(bytes) ==
    IF bytes = <<>> THEN TRUE
    ELSE IF bytes[1] < 128 THEN Utf8Valid(Tail(bytes))
    ELSE IF bytes[1] >= 194 /\ bytes[1] <= 223 /\ Len(bytes) >= 2
            /\ bytes[2] >= 128 /\ bytes[2] <= 191
    THEN Utf8Valid(SubSeq(bytes, 3, Len(bytes)))
    ELSE FALSE

RECURSIVE Utf8Decode(_)
Utf8Decode(bytes) ==
    IF bytes = <<>> THEN <<>>
    ELSE IF bytes[1] < 128 THEN <<bytes[1]>> \o Utf8Decode(Tail(bytes))
    ELSE <<(bytes[1] - 192) * 64 + (bytes[2] - 128)>>
         \o Utf8Decode(SubSeq(bytes, 3, Len(bytes)))

decode_base64(data) ==
    IF (Len(data) + PadCount(data)) % 4 = 0 /\ Len(data) % 4 = 1
    THEN Lit("(Could not decode message body)")     \* binascii.Error caught
    ELSE LET decoded_bytes == B64Bytes(data)
         IN IF Utf8Valid(decoded_bytes)
            THEN Str(Utf8Decode(decoded_bytes))
            ELSE Str(decoded_bytes)                      \* ISO-8859-1: byte = code point

(***************************************************************************)
(* _get_body_text.  A node is [mimeType, data, hasParts, parts]: data is   *)
(* <<>> when payload["body"] carries no data, hasParts says whether the    *)
(* "parts" key is present.                                                 *)
(***************************************************************************)
max_depth == 10

TooComplex == Lit("(Email structure too complex to parse)")

\* str.lower() on the MIME types of the model
MimeLower(m) ==
    CASE m = "TEXT/HTML" -> "text/html"
      [] m = "Text/Plain" -> "text/plain"
      [] m = "Multipart/Mixed" -> "multipart/mixed"
      [] OTHER -> m

\* mime_type.startswith("multipart/")
IsMultipart(m) == m \in {"multipart/mixed", "multipart/alternative", "multipart/related"}

HasParts(node) == node.hasParts

HasData(node) == node.data # <<>>

RECURSIVE get_body_text(_, _, _)
RECURSIVE PartsLoop(_, _, _, _, _, _)

\* for part in payload["parts"]: ... (lines 776-799); acc = [plain, html]
PartsLoop(parts, i, plain_text, html_text, depth, maxd) ==
    IF i > Len(parts) THEN [plain |-> plain_text, html |-> html_text]
    ELSE LET part == parts[i]
             mime_type == MimeLower(part.mimeType)
         IN IF mime_type = "text/plain" /\ HasData(part)
            THEN PartsLoop(parts, i + 1,
                           IF plain_text = None THEN decode_base64(part.data) ELSE plain_text,
                           html_text, depth, maxd)
            ELSE IF mime_type = "text/html" /\ HasData(part)
            THEN PartsLoop(parts, i + 1, plain_text,
                           IF html_text = None THEN decode_base64(part.data) ELSE html_text,
                           depth, maxd)
            ELSE IF HasParts(part) \/ IsMultipart(mime_type)
            THEN LET nested == get_body_text(part, depth + 1, maxd)
                 IN IF Truthy(nested.text)
                    THEN IF nested.is_html /\ html_text = None
                         THEN PartsLoop(parts, i + 1, plain_text, nested.text, depth, maxd)
                         ELSE IF ~nested.is_html /\ plain_text = None
                         THEN PartsLoop(parts, i + 1, nested.text, html_text, depth, maxd)
                         ELSE PartsLoop(parts, i + 1, plain_text, html_text, depth, maxd)
                    ELSE PartsLoop(parts, i + 1, plain_text, html_text, depth, maxd)
            ELSE PartsLoop(parts, i + 1, plain_text, html_text, depth, maxd)

\* Case 1 (lines 761-772): direct content in payload body
DirectContent(node) ==
    IF HasData(node)
    THEN LET mime_type == MimeLower(node.mimeType)
             body_data == decode_base64(node.data)
         IN IF mime_type = "text/plain" THEN [plain |-> body_data, html |-> None]
            ELSE IF mime_type = "text/html" THEN [plain |-> None, html |-> body_data]
            ELSE IF Truthy(body_data) THEN [plain |-> body_data, html |-> None]
            ELSE [plain |-> None, html |-> None]
    ELSE [plain |-> None, html |-> None]

\* mutant of the selection: plain text preferred over HTML
SelectBodyPlainFirst(plain_text, html_text) ==
    IF Truthy(plain_text) THEN [done |-> TRUE, text |-> plain_text, is_html |-> FALSE]
    ELSE IF Truthy(html_text) THEN [done |-> TRUE, text |-> html_text, is_html |-> TRUE]
    ELSE [done |-> TRUE, text |-> EmptyText, is_html |-> FALSE]

\* Selection (lines 801-811)
SelectBody(plain_text, html_text) ==
    IF Truthy(html_text) THEN [done |-> TRUE, text |-> html_text, is_html |-> TRUE]
    ELSE IF Truthy(plain_text) THEN [done |-> TRUE, text |-> plain_text, is_html |-> FALSE]
    ELSE [done |-> TRUE, text |-> EmptyText, is_html |-> FALSE]

\* mutant of the depth guard: off by one
DepthExceededLate(depth, maxd) == depth > maxd + 1

\* Guard against excessive recursion (line 750)
DepthExceeded(depth, maxd) == depth > maxd

get_body_text(node, depth, maxd) ==
    IF DepthExceeded(depth, maxd)
    THEN [done |-> TRUE, text |-> TooComplex, is_html |-> FALSE]
    ELSE LET direct == DirectContent(node)
             found == IF HasParts(node)
                      THEN PartsLoop(node.parts, 1, direct.plain, direct.html, depth, maxd)
                      ELSE direct
         IN SelectBody(found.plain, found.html)

(***************************************************************************)
(* Content trees of the decoder specification.  A tree is a chain of       *)
(* containers root = C0, C1, ..., Cn (Ck at depth k); an HTML leaf and a   *)
(* plain leaf hang under chosen containers, before or after the nested     *)
(* container, in either order; C1 may be an ill-formed text/plain part     *)
(* that carries data and children.  A payload may also be a single leaf.   *)
(***************************************************************************)
MaxNest == 12

PlainDatas == {<<"a", "G", "k">>, <<"_", "w">>}

HtmlDatas == {<<"P", "G", "I", "-">>, <<"A">>}

NoLeaf == 0 - 1

TreeDescriptors ==
    { d \in [n : 0..MaxNest, hp : NoLeaf..MaxNest, pp : NoLeaf..MaxNest,
             leavesFirst : BOOLEAN, htmlFirst : BOOLEAN, wrap : BOOLEAN,
             plainData : PlainDatas, htmlData : HtmlDatas] :
        /\ d.hp <= d.n /\ d.pp <= d.n
        /\ (d.wrap => d.n >= 1)
        /\ (d.hp = NoLeaf => d.htmlData = <<"A">>)
        /\ (d.pp = NoLeaf => d.plainData = <<"_", "w">>)
        /\ (d.hp # d.pp => d.htmlFirst) }

Leaf(mime, data) == [mimeType |-> mime, data |-> data, hasParts |-> FALSE, parts |-> <<>>]

RECURSIVE Chain(_, _)
Chain(k, d) ==
    LET html == IF d.hp = k
                THEN <<Leaf(IF d.leavesFirst THEN "text/html" ELSE "TEXT/HTML", d.htmlData)>>
                ELSE <<>>
        plain == IF d.pp = k THEN <<Leaf("text/plain", d.plainData)>> ELSE <<>>
        leaves == IF d.htmlFirst THEN html \o plain ELSE plain \o html
        nested == IF k < d.n THEN <<Chain(k + 1, d)>> ELSE <<>>
    IN [mimeType |-> IF k = 1 /\ d.wrap THEN "text/plain" ELSE "multipart/mixed",
        data |-> IF k = 1 /\ d.wrap THEN <<"a", "G", "k">> ELSE <<>>,
        hasParts |-> TRUE,
        parts |-> IF d.leavesFirst THEN leaves \o nested ELSE nested \o leaves]

LeafPayloads ==
    { Leaf(m, dt) : m \in {"text/plain", "TEXT/HTML", "application/pdf"},
                    dt \in {<<>>, <<"a", "G", "k">>, <<"A">>} }

Payloads == { Chain(0, d) : d \in TreeDescriptors } \cup LeafPayloads

NoParse == [done |-> FALSE, suggestions |-> <<>>]

Unset == [set |-> FALSE, value |-> <<>>]

NoFile == [exists |-> FALSE, readable |-> FALSE, text |-> <<>>]

NoJson == [ok |-> FALSE, kind |-> "", canon |-> <<>>]

NoSecrets == [done |-> FALSE, raised |-> "", config |-> NoJson]

\* an option of the configuration file: absent, or present with a text
Missing == [present |-> FALSE, value |-> ""]

Option(text) == [present |-> TRUE, value |-> text]

NoConfig == [model_name |-> Missing, api_base_url |-> Missing,
             suggestion_prompt_template |-> Missing, request_timeout_sec |-> Missing,
             status_timeout_sec |-> Missing, max_retries |-> Missing,
             retry_delay_sec |-> Missing]

\* an attribute holding None
PyNone == [none |-> TRUE, value |-> ""]

NoInstance == [model_name |-> PyNone, api_base_url |-> PyNone,
               suggestion_prompt_template |-> PyNone, request_timeout |-> 0,
               status_timeout |-> 0, max_retries |-> 0, retry_delay |-> 0]

NoClient == [done |-> FALSE, raised |-> "", instance |-> NoInstance]

ConstructIdle ==
    /\ llm_config = NoConfig
    /\ llm_client = NoClient

ParseIdle ==
    /\ numbered_items = <<>>
    /\ parse_result = NoParse

SecretsIdle ==
    /\ env_content = Unset
    /\ env_path = Unset
    /\ secrets_file = NoFile
    /\ secrets_result = NoSecrets

DecodeIdle ==
    /\ payload = Leaf("text/plain", <<>>)
    /\ body_result = NoResult

BatchIdle ==
    /\ message_ids = <<>>
    /\ chunk_size = 1
    /\ bpc = "done"
    /\ chunk_i = 0
    /\ chunk_ids = <<>>
    /\ pending = {}
    /\ metadata_results = <<>>
    /\ all_metadata_results = <<>>
    /\ emails = <<>>
    /\ call_status = "none"
    /\ last_result = <<>>
    /\ delivered = <<>>
    /\ chunk_log = <<>>

NoDetails == [id |-> "", in_reply_to |-> FALSE, thread_id |-> FALSE, from |-> <<>>,
              body |-> <<>>]

NoError == [class |-> "none", code |-> 0, message |-> ""]

\* thread_context = ""
NoContext == [header |-> "", blocks |-> <<>>]

\* no prompt was formatted
NoPrompt == [template |-> "", email_body |-> <<>>, thread_context |-> NoContext]

LlmIdle ==
    /\ llm_state = "idle"
    /\ llm_mode = "none"
    /\ attempt = 0
    /\ post_count = 0
    /\ sleep_log = <<>>
    /\ n_transient = 0
    /\ n_empty = 0
    /\ last_raw = <<>>
    /\ llm_result = <<>>
    /\ llm_error = NoError
    /\ prompt = NoPrompt
    /\ last_sent = NoPrompt


RouteIdle ==
    /\ auth_status = "unknown"
    /\ details = NoDetails
    /\ is_reply = FALSE
    /\ thread_listing = <<>>
    /\ details_list = <<>>
    /\ thread_context = NoContext
    /\ user_email = <<>>
    /\ calls = <<>>
    /\ responses = <<>>

PipeIdle ==
    /\ pc = "idle"
    /\ route = "suggestions"
    /\ max_retries = 0
    /\ RouteIdle
    /\ LlmIdle

DecodeInit ==
    /\ payload \in Payloads
    /\ body_result = NoResult
    /\ BatchIdle
    /\ PipeIdle
    /\ ParseIdle
    /\ SecretsIdle
    /\ ConstructIdle

\* get_message_details line 428: self._get_body_text(message["payload"])
GetBodyText ==
    /\ body_result = NoResult
    /\ body_result' = get_body_text(payload, 0, max_depth)
    /\ UNCHANGED <<payload, batchVars, pipeVars, funcVars>>

DecodeNext == GetBodyText

SpecDecode == DecodeInit /\ [][DecodeNext]_vars

(***************************************************************************)
(* Facts about a content tree, read off the tree itself.                   *)
(***************************************************************************)
TextPartWithData(node) ==
    MimeLower(node.mimeType) \in {"text/plain", "text/html"} /\ HasData(node)

RECURSIVE TreeNodes(_, _, _)
\* every node with its depth; hidden = some ancestor below the root is a text
\* part carrying data, which the parent's loop reads as a leaf
TreeNodes(node, depth, hidden) ==
    {[mime |-> MimeLower(node.mimeType), depth |-> depth, data |-> node.data,
      container |-> HasParts(node), hidden |-> hidden]}
    \cup (IF HasParts(node)
          THEN UNION { TreeNodes(node.parts[i], depth + 1,
                                 hidden \/ (depth > 0 /\ TextPartWithData(node))) :
                       i \in 1..Len(node.parts) }
          ELSE {})

AllNodes == TreeNodes(payload, 0, FALSE)

HtmlLeaves == { x \in AllNodes : ~x.container /\ x.mime = "text/html" /\ x.data # <<>> }

PlainLeaves == { x \in AllNodes : ~x.container /\ x.mime = "text/plain" /\ x.data # <<>> }

\* a node the traversal reads: its parent's frame runs (depth <= max_depth)
WithinBound(x) == x.depth <= max_depth + 1 /\ ~x.hidden

\* the depth guard fires: a container deeper than the bound is descended into
GuardFires == \E x \in AllNodes : x.container /\ x.depth = max_depth + 1 /\ ~x.hidden

Decoded == body_result.done

TooComplexResult == [done |-> TRUE, text |-> TooComplex, is_html |-> FALSE]

\* C9 as stated: whenever the tree holds a text/plain leaf with data and a
\* text/html leaf with data, at any positions, the result is that HTML
\* leaf's text with is_html = true.
C9_Original ==
    (Decoded /\ HtmlLeaves # {} /\ PlainLeaves # {})
        => /\ body_result.is_html
           /\ \E h \in HtmlLeaves : body_result.text = decode_base64(h.data)

\* C9 (amended): when the tree holds a text/plain leaf with data and a
\* text/html leaf with data that the traversal reads (the HTML leaf is at
\* depth <= max_depth + 1 and no ancestor below the root is itself a text part
\* carrying data), the result is the text of such an HTML leaf with
\* is_html = true, whatever the child order.
C9_HtmlWins ==
    (Decoded /\ PlainLeaves # {} /\ \E h \in HtmlLeaves : WithinBound(h))
        => /\ body_result.is_html
           /\ \E h \in HtmlLeaves : WithinBound(h) /\ body_result.text = decode_base64(h.data)

\* C9 witness: a plain leaf right under the root is found first, the HTML leaf
\* lies at the deepest readable position, and the HTML text is returned.
C9_Witness ==
    /\ Decoded
    /\ \E h \in HtmlLeaves, p \in PlainLeaves :
          /\ h.depth = max_depth + 1 /\ WithinBound(h) /\ p.depth = 1
          /\ payload.parts[1].mimeType = "text/plain"
          /\ body_result.text = decode_base64(h.data)
    /\ body_result.is_html

METADATA_BATCH_CHUNK_SIZE == 15

MaxIds == 3

\* identifiers list_messages may return; "" is the invalid id of line 319
MessageIdValues == {"m1", "m2", ""}

\* the route uses METADATA_BATCH_CHUNK_SIZE; smaller sizes exercise the loop
ChunkSizes == {1, 2, METADATA_BATCH_CHUNK_SIZE}

NoneMeta == [none |-> TRUE, id |-> "", subject |-> "", from |-> "", date |-> "",
             labelIds |-> <<>>]

NoException == "None"

Header(n, v) == [hasName |-> TRUE, name |-> n, value |-> v]

\* a header entry without a "name" key: h["name"] raises KeyError
BadHeader == [hasName |-> FALSE, name |-> "", value |-> ""]

NoneResponse == [isNone |-> TRUE, headers |-> <<>>, labelIds |-> <<>>]

Responses ==
    { [isNone |-> FALSE,
       headers |-> <<Header("Subject", "Hi"), Header("From", "bob"), Header("Date", "d1")>>,
       labelIds |-> <<"INBOX">>],
      [isNone |-> FALSE,
       headers |-> <<Header("subject", "lower"), Header("Subject", "second")>>,
       labelIds |-> <<>>],
      [isNone |-> FALSE,
       headers |-> <<Header("Subject", "Hi"), BadHeader>>,
       labelIds |-> <<"INBOX">>] }

\* what batch.execute() hands a callback: a response or an exception
CallbackArgs ==
    { [response |-> r, exception |-> NoException] : r \in Responses \cup {NoneResponse} }
    \cup { [response |-> NoneResponse, exception |-> e] : e \in {"HttpError", "Exception"} }

\* h["name"].lower()
HeaderLower(n) ==
    CASE n = "Subject" -> "subject"
      [] n = "From" -> "from"
      [] n = "Date" -> "date"
      [] OTHER -> n

RECURSIVE FindHeader(_, _, _)
\* next((h["value"] for h in headers if h["name"].lower() == lname), default)
FindHeader(headers, lname, default) ==
    IF headers = <<>> THEN [raised |-> FALSE, value |-> default]
    ELSE IF ~Head(headers).hasName THEN [raised |-> TRUE, value |-> ""]
    ELSE IF HeaderLower(Head(headers).name) = lname
    THEN [raised |-> FALSE, value |-> Head(headers).value]
    ELSE FindHeader(Tail(headers), lname, default)

\* the value _batch_callback stores under request_id (lines 257-307)
batch_callback_value(request_id, response, exception) ==
    IF exception # NoException THEN NoneMeta
    ELSE IF response.isNone THEN NoneMeta
    ELSE LET subject == FindHeader(response.headers, "subject", "(No subject)")
             from_addr == FindHeader(response.headers, "from", "(Unknown sender)")
             date_str == FindHeader(response.headers, "date", "(Unknown date)")
         IN IF subject.raised \/ from_addr.raised \/ date_str.raised
            THEN NoneMeta                       \* except Exception as parse_error
            ELSE [none |-> FALSE, id |-> request_id, subject |-> subject.value,
                  from |-> from_addr.value, date |-> date_str.value,
                  labelIds |-> response.labelIds]

\* mutant: a failed item is not recorded at all
batch_callback_skip_failed(results, request_id, arg) ==
    IF arg.exception # NoException THEN results
    ELSE DictSet(results, request_id,
                 batch_callback_value(request_id, arg.response, arg.exception))

\* mutant: a failed item wipes what the other callbacks stored
batch_callback_clear_on_error(results, request_id, arg) ==
    IF arg.exception # NoException THEN <<[k |-> request_id, v |-> NoneMeta]>>
    ELSE DictSet(results, request_id,
                 batch_callback_value(request_id, arg.response, arg.exception))

\* mutant: a callback looks at what the other callbacks stored
batch_callback_after_others(results, request_id, arg) ==
    IF results # <<>> THEN DictSet(results, request_id, NoneMeta)
    ELSE DictSet(results, request_id,
                 batch_callback_value(request_id, arg.response, arg.exception))

\* _batch_callback: metadata_results[request_id] = ...
batch_callback(results, request_id, arg) ==
    DictSet(results, request_id,
            batch_callback_value(request_id, arg.response, arg.exception))

\* if msg_id and isinstance(msg_id, str) (line 319)
ValidId(msg_id) == msg_id # ""

RECURSIVE MergeChunk(_, _)
\* for msg_id, metadata in chunk_metadata_dict.items(): if metadata is not None: ...
MergeChunk(all, chunk_dict) ==
    IF chunk_dict = <<>> THEN all
    ELSE MergeChunk(IF Head(chunk_dict).v # NoneMeta
                    THEN DictSet(all, Head(chunk_dict).k, Head(chunk_dict).v)
                    ELSE all,
                    Tail(chunk_dict))

\* [metadata for metadata in all_metadata_results.values() if metadata is not None]
DictValuesNotNone(dict) ==
    SelectSeq([j \in 1..Len(dict) |-> dict[j].v], LAMBDA m : m # NoneMeta)

BatchInit ==
    /\ message_ids \in UNION { [1..n -> MessageIdValues] : n \in 0..MaxIds }
    /\ chunk_size \in ChunkSizes
    /\ bpc = "loop"
    /\ chunk_i = 0
    /\ chunk_ids = <<>>
    /\ pending = {}
    /\ metadata_results = <<>>
    /\ all_metadata_results = <<>>
    /\ emails = <<>>
    /\ call_status = "none"
    /\ last_result = <<>>
    /\ delivered = <<>>
    /\ chunk_log = <<>>
    /\ DecodeIdle
    /\ PipeIdle
    /\ ParseIdle
    /\ SecretsIdle
    /\ ConstructIdle

\* mutant: every chunk starts again at the head of the list
ChunkOfFromStart(ids, i, size) == SubSeq(ids, 1, Min(i + size, Len(ids)))

\* message_ids[i : i + METADATA_BATCH_CHUNK_SIZE]
ChunkOf(ids, i, size) == SubSeq(ids, i + 1, Min(i + size, Len(ids)))

\* the last batch call ends with the given outcome
CloseChunk(log, outcome, result) ==
    [log EXCEPT ![Len(log)] = [@ EXCEPT !.outcome = outcome, !.result = result]]

\* list_emails lines 71-83 entering get_multiple_messages_metadata lines 250-343:
\* the chunk is cut, the batch is built from the valid ids and executed.
StartChunk ==
    /\ bpc = "loop"
    /\ chunk_i < Len(message_ids)
    /\ chunk_ids' = ChunkOf(message_ids, chunk_i, chunk_size)
    /\ chunk_log' = Append(chunk_log, [ids |-> chunk_ids', start |-> chunk_i,
                                       outcome |-> "in flight", result |-> <<>>])
    /\ metadata_results' = <<>>
    /\ delivered' = <<>>
    /\ pending' = { m \in Elems(chunk_ids') : ValidId(m) }
    /\ bpc' = "execute"
    /\ UNCHANGED <<message_ids, chunk_size, chunk_i, all_metadata_results, emails,
                   call_status, last_result, decodeVars, pipeVars, funcVars>>

\* batch.execute() invokes the callback of one request, in any order
BatchCallback ==
    /\ bpc = "execute"
    /\ \E request_id \in pending, arg \in CallbackArgs :
          /\ metadata_results' = batch_callback(metadata_results, request_id, arg)
          /\ delivered' = DictSet(delivered, request_id, arg)
          /\ pending' = pending \ {request_id}
    /\ UNCHANGED <<message_ids, chunk_size, bpc, chunk_i, chunk_ids, all_metadata_results,
                   emails, call_status, last_result, chunk_log, decodeVars, pipeVars, funcVars>>

\* batch.execute() returns (line 343-353); list_emails merges (lines 85-88)
ExecuteReturns ==
    /\ bpc = "execute"
    /\ pending = {}
    /\ call_status' = "returned"
    /\ chunk_log' = CloseChunk(chunk_log, "returned", metadata_results)
    /\ last_result' = metadata_results
    /\ all_metadata_results' = MergeChunk(all_metadata_results, metadata_results)
    /\ chunk_i' = chunk_i + chunk_size
    /\ bpc' = "loop"
    /\ UNCHANGED <<message_ids, chunk_size, chunk_ids, pending, metadata_results,
                   emails, delivered, decodeVars, pipeVars, funcVars>>

\* mutant: "Option 1: Return partial results collected so far"
FailedCallResultPartial(results) == results

\* what a batch call that fails as a whole hands to list_emails: it raises
\* ("Option 2"), so nothing
FailedCallResult(results) == <<>>

\* the batch fails as a whole (lines 355-386): GmailApiError is raised, and
\* list_emails logs it and goes on with the next chunk (lines 89-93)
ExecuteFails ==
    /\ bpc = "execute"
    /\ call_status' = "raised"
    /\ chunk_log' = CloseChunk(chunk_log, "raised", metadata_results)
    /\ last_result' = FailedCallResult(metadata_results)
    /\ all_metadata_results' = MergeChunk(all_metadata_results,
                                          FailedCallResult(metadata_results))
    /\ chunk_i' = chunk_i + chunk_size
    /\ bpc' = "loop"
    /\ UNCHANGED <<message_ids, chunk_size, chunk_ids, pending, metadata_results,
                   emails, delivered, decodeVars, pipeVars, funcVars>>

\* list_emails lines 95-112: the loop is over (or there were no ids)
FinishList ==
    /\ bpc = "loop"
    /\ chunk_i >= Len(message_ids)
    /\ emails' = DictValuesNotNone(all_metadata_results)
    /\ bpc' = "done"
    /\ UNCHANGED <<message_ids, chunk_size, chunk_i, chunk_ids, pending, metadata_results,
                   all_metadata_results, call_status, last_result, delivered, chunk_log,
                   decodeVars, pipeVars, funcVars>>

BatchNext == StartChunk \/ BatchCallback \/ ExecuteReturns \/ ExecuteFails \/ FinishList

SpecBatch == BatchInit /\ [][BatchNext]_vars

(***************************************************************************)
(* Claims about the batch metadata fetch.                                  *)
(***************************************************************************)
CallEnded == call_status # "none" /\ bpc # "execute"

\* the item failed: an exception, no response, or a response that cannot be parsed
ItemFailed(arg) ==
    \/ arg.exception # NoException
    \/ arg.response.isNone
    \/ \E j \in 1..Len(arg.response.headers) : ~arg.response.headers[j].hasName

HeaderValues(headers, lname) ==
    { headers[j].value : j \in { n \in 1..Len(headers) : HeaderLower(headers[n].name) = lname } }

\* a populated metadata record for request_id built from the response
Populated(meta, request_id, response) ==
    /\ ~meta.none
    /\ meta.id = request_id
    /\ meta.labelIds = response.labelIds
    /\ IF HeaderValues(response.headers, "subject") = {}
       THEN meta.subject = "(No subject)"
       ELSE meta.subject \in HeaderValues(response.headers, "subject")
    /\ IF HeaderValues(response.headers, "from") = {}
       THEN meta.from = "(Unknown sender)"
       ELSE meta.from \in HeaderValues(response.headers, "from")
    /\ IF HeaderValues(response.headers, "date") = {}
       THEN meta.date = "(Unknown date)"
       ELSE meta.date \in HeaderValues(response.headers, "date")

\* C1 as stated: every batch call, whatever the mix of item successes, item
\* errors and chunk failures, produces a mapping whose key set is exactly the
\* set of input identifiers.
C1_Original ==
    CallEnded => /\ call_status = "returned"
                 /\ DictKeys(last_result) = Elems(chunk_ids)

\* C1 (amended): when the batch call returns, the key set of its mapping is
\* exactly the set of valid (non-empty string) input identifiers, duplicates
\* collapsed: none is missing and no other key is present.  When the batch
\* fails as a whole the call raises GmailApiError and returns no mapping.
C1_KeySet ==
    /\ (CallEnded /\ call_status = "returned")
          => DictKeys(last_result) = { m \in Elems(chunk_ids) : ValidId(m) }
    /\ (CallEnded /\ call_status = "raised") => last_result = <<>>

\* C1 witness: a returned call on a chunk with a duplicate and two distinct
\* identifiers, one of which failed.
C1_Witness ==
    /\ CallEnded /\ call_status = "returned"
    /\ Len(chunk_ids) = 3
    /\ DictKeys(last_result) = {"m1", "m2"}
    /\ \E m \in DictKeys(last_result) : DictValue(last_result, m) = NoneMeta

\* C2: in a batch call, an identifier whose callback carries an error (or an
\* unparsable response) maps to None, and every other identifier whose
\* callback carried a valid response keeps its populated record, while the
\* callbacks run and when the call returns.
C2_ItemIsolation ==
    (bpc = "execute" \/ (CallEnded /\ call_status = "returned"))
        => \A m \in DictKeys(delivered) :
              LET arg == DictValue(delivered, m)
              IN /\ m \in DictKeys(metadata_results)
                 /\ IF ItemFailed(arg)
                    THEN DictValue(metadata_results, m) = NoneMeta
                    ELSE Populated(DictValue(metadata_results, m), m, arg.response)

\* C2 witness: the call returned although one item failed after another one
\* had delivered a valid response, and both entries are in the mapping.
C2_Witness ==
    /\ CallEnded /\ call_status = "returned"
    /\ Len(delivered) = 2
    /\ ~ItemFailed(delivered[1].v)
    /\ delivered[2].v.exception = "HttpError"
    /\ ~DictValue(last_result, delivered[1].k).none
    /\ DictValue(last_result, delivered[2].k) = NoneMeta

(***************************************************************************)
(* LocalLlmService._parse_suggestions.  Generated text is a sequence of    *)
(* one-character strings; a suggestion is Str(chars) or a literal of the   *)
(* source.                                                                 *)
(***************************************************************************)
IsSpace(c) == c \in {" ", "\n", "\t"}

IsDigit(c) == c \in {"0", "1", "2", "3", "4", "5", "6", "7", "8", "9"}

UpperChars == <<"A","B","C","D","E","F","G","H","I","J","K","L","M",
                "N","O","P","Q","R","S","T","U","V","W","X","Y","Z">>

LowerChars == <<"a","b","c","d","e","f","g","h","i","j","k","l","m",
                "n","o","p","q","r","s","t","u","v","w","x","y","z">>

\* str.lower(), one character
LowerChar(c) ==
    IF \E n \in 1..Len(UpperChars) : UpperChars[n] = c
    THEN LowerChars[CHOOSE n \in 1..Len(UpperChars) : UpperChars[n] = c]
    ELSE c

LowerText(t) == [n \in 1..Len(t) |-> LowerChar(t[n])]

\* str.startswith(prefix)
StartsWith(t, prefix) ==
    Len(t) >= Len(prefix) /\ SubSeq(t, 1, Len(prefix)) = prefix

RECURSIVE LStrip(_)
LStrip(t) == IF t # <<>> /\ IsSpace(Head(t)) THEN LStrip(Tail(t)) ELSE t

RECURSIVE RStrip(_)
RStrip(t) == IF t # <<>> /\ IsSpace(t[Len(t)]) THEN RStrip(SubSeq(t, 1, Len(t) - 1)) ELSE t

\* str.strip()
Strip(t) == RStrip(LStrip(t))

RECURSIVE SplitLines(_, _)
\* str.split("\n"): cur is the line being read
SplitLines(t, cur) ==
    IF t = <<>> THEN <<cur>>
    ELSE IF Head(t) = "\n" THEN <<cur>> \o SplitLines(Tail(t), <<>>)
    ELSE SplitLines(Tail(t), Append(cur, Head(t)))

\* line[0].isdigit() and line[1] == "."   (lines 285-292)
IsNumberedLine(line) == Len(line) > 1 /\ IsDigit(line[1]) /\ line[2] = "."

RECURSIVE NumberedLoopDropLast(_, _, _, _)
\* mutant: the suggestion still open when the text ends is not added
NumberedLoopDropLast(lines, suggestions, current_suggestion, in_numbered_list) ==
    IF lines = <<>> THEN suggestions
    ELSE LET line == Strip(Head(lines))
         IN IF IsNumberedLine(line)
            THEN NumberedLoopDropLast(Tail(lines),
                                      IF current_suggestion # <<>>
                                      THEN Append(suggestions, Strip(current_suggestion))
                                      ELSE suggestions,
                                      Strip(SubSeq(line, 3, Len(line))),
                                      TRUE)
            ELSE NumberedLoopDropLast(Tail(lines), suggestions, current_suggestion,
                                      in_numbered_list)

RECURSIVE NumberedLoop(_, _, _, _)
\* first strategy (lines 279-315); the suggestions are collected as texts
NumberedLoop(lines, suggestions, current_suggestion, in_numbered_list) ==
    IF lines = <<>>
    THEN IF current_suggestion # <<>>
         THEN Append(suggestions, Strip(current_suggestion))
         ELSE suggestions
    ELSE LET line == Strip(Head(lines))
         IN IF line = <<>>
            THEN NumberedLoop(Tail(lines), suggestions, current_suggestion, in_numbered_list)
            ELSE IF IsNumberedLine(line)
            THEN NumberedLoop(Tail(lines),
                              IF current_suggestion # <<>>
                              THEN Append(suggestions, Strip(current_suggestion))
                              ELSE suggestions,
                              Strip(SubSeq(line, 3, Len(line))),
                              TRUE)
            ELSE IF in_numbered_list /\ current_suggestion # <<>>
            THEN NumberedLoop(Tail(lines), suggestions,
                              (IF current_suggestion[Len(current_suggestion)]
                                     \notin {".", ",", ":", ";", "!", "?"}
                               THEN Append(current_suggestion, " ")
                               ELSE current_suggestion) \o line,
                              in_numbered_list)
            ELSE NumberedLoop(Tail(lines), suggestions, current_suggestion, in_numbered_list)

SYSTEM_LABEL == <<"s", "y", "s", "t", "e", "m", ":">>

USER_LABEL == <<"u", "s", "e", "r", ":">>

ASSISTANT_LABEL == <<"a", "s", "s", "i", "s", "t", "a", "n", "t", ":">>

SUGGESTION_WORD == <<"s", "u", "g", "g", "e", "s", "t", "i", "o", "n">>

REPLY_WORD == <<"r", "e", "p", "l", "y">>

SUGGEST_WORD == <<"s", "u", "g", "g", "e", "s", "t">>

YOU_COULD_WORDS == <<"y", "o", "u", " ", "c", "o", "u", "l", "d">>

RoleLabels == {SYSTEM_LABEL, USER_LABEL, ASSISTANT_LABEL}

RECURSIVE FallbackLoop(_, _)
\* second strategy (lines 327-349): up to three reasonable lines
FallbackLoop(lines, suggestions) ==
    IF lines = <<>> \/ Len(suggestions) >= 3 THEN suggestions
    ELSE LET line == Strip(Head(lines))
             low == LowerText(line)
         IN IF line = <<>> \/ \E label \in RoleLabels : StartsWith(low, label)
            THEN FallbackLoop(Tail(lines), suggestions)
            ELSE IF Len(line) < 10 \/ StartsWith(low, SUGGESTION_WORD)
                    \/ StartsWith(low, REPLY_WORD)
            THEN FallbackLoop(Tail(lines), suggestions)
            ELSE FallbackLoop(Tail(lines), Append(suggestions, line))

\* suggestion[0].isdigit() and suggestion[1:3] in [". ", ".)"]  (lines 355-360)
StripNumbering(suggestion) ==
    IF Len(suggestion) >= 3 /\ IsDigit(suggestion[1])
       /\ SubSeq(suggestion, 2, 3) \in {<<".", " ">>, <<".", ")">>}
    THEN Strip(SubSeq(suggestion, 4, Len(suggestion)))
    ELSE suggestion

RECURSIVE QualityFilter(_)
\* post-filter (lines 352-372)
QualityFilter(suggestions) ==
    IF suggestions = <<>> THEN <<>>
    ELSE LET suggestion == StripNumbering(Head(suggestions))
             low == LowerText(suggestion)
         IN IF Len(suggestion) < 10 \/ StartsWith(low, SUGGEST_WORD)
               \/ StartsWith(low, YOU_COULD_WORDS)
            THEN QualityFilter(Tail(suggestions))
            ELSE <<suggestion>> \o QualityFilter(Tail(suggestions))

FallbackSuggestions ==
    <<Lit("I'll review this and get back to you soon."),
      Lit("Thanks for your email. Let me think about this."),
      Lit("I've received your message and will respond shortly.")>>

AsStrs(texts) == [n \in 1..Len(texts) |-> Str(texts[n])]

\* mutant: a text from which nothing is extracted gives no suggestions
parse_suggestions_no_fallback(raw_response) ==
    IF raw_response = <<>> THEN <<>>
    ELSE LET lines == SplitLines(Strip(raw_response), <<>>)
             numbered == NumberedLoop(lines, <<>>, <<>>, FALSE)
         IN IF numbered # <<>> THEN AsStrs(numbered)
            ELSE AsStrs(QualityFilter(FallbackLoop(lines, <<>>)))

parse_suggestions(raw_response) ==
    IF raw_response = <<>> THEN <<>>
    ELSE LET lines == SplitLines(Strip(raw_response), <<>>)
             numbered == NumberedLoop(lines, <<>>, <<>>, FALSE)
         IN IF numbered # <<>> THEN AsStrs(numbered)
            ELSE LET filtered_suggestions == QualityFilter(FallbackLoop(lines, <<>>))
                 IN IF filtered_suggestions = <<>> THEN FallbackSuggestions
                    ELSE AsStrs(filtered_suggestions)

\* texts the generation backend may answer with
RawEmpty == <<>>

RawNumbered == <<"1", ".", " ", "C", "a", "l", "l", " ", "t", "h", "e", "m", " ", "b", "a", "c", "k", "\n", "2", ".", " ", "D", "e", "c", "l", "i", "n", "e", "\n">>

RawFour == <<"1", ".", "a", "\n", "2", ".", "b", "\n", "3", ".", "c", "\n", "4", ".", "d">>

RawShort == <<"o", "k">>

RawPlain == <<"S", "u", "r", "e", ",", " ", "s", "e", "e", " ", "y", "o", "u", " ", "t", "h", "e", "n", ".">>

RawBareNumber == <<" ", "1", ".", "\n">>

RawResponses == {RawEmpty, RawNumbered, RawFour, RawShort, RawPlain, RawBareNumber}

(***************************************************************************)
(* LocalLlmService.get_suggestions / get_suggestions_with_context: input   *)
(* validation, prompt formatting and the retry loop.                       *)
(***************************************************************************)
MaxRetriesCfg == 3

retry_delay == 2

TransientErrors == {"ConnectionError", "Timeout", "HTTPError", "RequestException", "Exception"}

Error(class, code, message) == [class |-> class, code |-> code, message |-> message]

\* the OllamaError raised by each except clause on the last attempt (lines 163-226)
BackendError(kind) ==
    CASE kind = "ConnectionError" -> Error("OllamaError", 503, "Ollama service not reachable")
      [] kind = "Timeout" -> Error("OllamaError", 504, "Request to Ollama timed out")
      [] kind = "HTTPError" -> Error("OllamaError", 500, "Ollama API returned an error")
      [] kind = "RequestException" -> Error("OllamaError", 503, "Error communicating with Ollama")
      [] OTHER -> Error("OllamaError", 503, "Error generating suggestions")

\* mutant: the last attempt is retried as well
ShouldRetryAlways(n, retries) == n <= retries

\* if attempt < self.max_retries
ShouldRetry(n, retries) == n < retries

\* mutant: the next attempt starts without the wait
LlmRetryNoSleep ==
    /\ attempt' = attempt + 1
    /\ UNCHANGED <<sleep_log, llm_state, llm_result, llm_error>>

\* time.sleep(self.retry_delay); continue
LlmRetry ==
    /\ sleep_log' = Append(sleep_log, retry_delay)
    /\ attempt' = attempt + 1
    /\ UNCHANGED <<llm_state, llm_result, llm_error>>

\* raise OllamaError(...)
LlmRaise(err) ==
    /\ llm_state' = "failed"
    /\ llm_error' = err
    /\ UNCHANGED <<sleep_log, attempt, llm_result>>

routeVarsNoCalls == <<pc, route, auth_status, max_retries, details, is_reply, thread_listing, details_list,
                      thread_context, user_email, responses>>

\* one pass of the loop body in which requests.post, raise_for_status or
\* response.json raises
LlmTransientError ==
    /\ pc = "llm" /\ llm_state = "attempt" /\ attempt <= max_retries
    /\ post_count' = post_count + 1
    /\ calls' = Append(calls, "requests.post")
    /\ n_transient' = n_transient + 1
    /\ last_sent' = prompt
    /\ \E kind \in TransientErrors :
          IF ShouldRetry(attempt, max_retries) THEN LlmRetry ELSE LlmRaise(BackendError(kind))
    /\ UNCHANGED <<llm_mode, n_empty, last_raw, prompt, routeVarsNoCalls, decodeVars,
                   batchVars, funcVars>>

\* one pass of the loop body in which the backend answers (lines 123-161)
LlmResponse ==
    /\ pc = "llm" /\ llm_state = "attempt" /\ attempt <= max_retries
    /\ post_count' = post_count + 1
    /\ calls' = Append(calls, "requests.post")
    /\ last_sent' = prompt
    /\ \E raw_response \in RawResponses :
          LET suggestions == parse_suggestions(raw_response)
          IN /\ last_raw' = raw_response
             /\ IF suggestions = <<>>
                THEN /\ n_empty' = n_empty + 1
                     /\ IF ShouldRetry(attempt, max_retries)
                        THEN LlmRetry
                        ELSE LlmRaise(BackendError("Exception"))
                ELSE /\ llm_state' = "done"
                     /\ llm_result' = suggestions
                     /\ UNCHANGED <<n_empty, attempt, sleep_log, llm_error>>
    /\ UNCHANGED <<llm_mode, n_transient, prompt, routeVarsNoCalls, decodeVars, batchVars,
                   funcVars>>

\* the statement after the loop (lines 228-231)
LlmLoopExit ==
    /\ pc = "llm" /\ llm_state = "attempt" /\ attempt > max_retries
    /\ LlmRaise(Error("OllamaError", 503,
                      "Unexpected error: all retries failed but no exception was raised"))
    /\ UNCHANGED <<llm_mode, post_count, n_transient, n_empty, last_raw, prompt, last_sent,
                   routeVars, decodeVars, batchVars, funcVars>>

max_chars == 4000

\* "\n\n[Email truncated due to length...]"
TRUNCATION_MARKER ==
    <<"\n", "\n", "[", "E", "m", "a", "i", "l", " ", "t", "r", "u",
      "n", "c", "a", "t", "e", "d", " ", "d", "u", "e", " ", "t",
      "o", " ", "l", "e", "n", "g", "t", "h", ".", ".", ".", "]">>

\* mutant: the cut keeps one character too many
truncate_email_one_more(email_body, limit) ==
    IF Len(email_body) <= limit THEN email_body
    ELSE SubSeq(email_body, 1, limit + 1) \o TRUNCATION_MARKER

\* _truncate_email (lines 233-253)
truncate_email(email_body, limit) ==
    IF Len(email_body) <= limit THEN email_body
    ELSE SubSeq(email_body, 1, limit) \o TRUNCATION_MARKER

\* self.suggestion_prompt_template.format(email_body=truncated_body) (line 105)
\* and reply_prompt_template.format(thread_context=thread_context) (line 482)
FormatPrompt(mode, email_body) ==
    IF mode = "get_suggestions"
    THEN [template |-> "suggestion_prompt_template",
          email_body |-> truncate_email(email_body, max_chars),
          thread_context |-> NoContext]
    ELSE [template |-> "reply_prompt_template", email_body |-> <<>>,
          thread_context |-> thread_context]

\* mutant: the body is not validated
ValidBodyAlways(email_body) == TRUE

\* not (not email_body or not isinstance(email_body, str)); the route hands
\* over details["body"], which is always a str
ValidBody(email_body) == email_body # <<>>

\* entry of get_suggestions / get_suggestions_with_context (lines 91-105,
\* 455-482): validation, then the prompt is formatted; the configured template
\* of the standalone call may be missing or malformed, the context template is
\* a literal of the source.
LlmCall(mode, email_body) ==
    /\ llm_mode' = mode
    /\ IF ~ValidBody(email_body)
       THEN /\ llm_state' = "failed"
            /\ llm_error' = Error("OllamaError", 400, "Email body must be non-empty string")
            /\ attempt' = 0
            /\ prompt' = NoPrompt
       ELSE \E template_ok \in (IF mode = "get_suggestions" THEN BOOLEAN ELSE {TRUE}) :
               IF template_ok
               THEN /\ llm_state' = "attempt"
                    /\ attempt' = 1
                    /\ llm_error' = NoError
                    /\ prompt' = FormatPrompt(mode, email_body)
               ELSE /\ llm_state' = "raised"
                    /\ llm_error' = Error("AttributeError", 0, "format")
                    /\ attempt' = 0
                    /\ prompt' = NoPrompt
    /\ UNCHANGED <<post_count, sleep_log, n_transient, n_empty, last_raw, llm_result,
                   last_sent>>

(***************************************************************************)
(* GET /emails/<message_id>/suggestions (routes/emails.py, get_suggestions)*)
(***************************************************************************)
MESSAGE_ID == "x"

UserAddress == <<"m", "e", "@", "x">>

FromSelf == <<"M", "e", " ", "<", "m", "e", "@", "x", ">">>

FromOther == <<"b", "o", "b", "@", "x">>

\* get_user_email returns the address, or None on any error
UserEmails == {<<>>, UserAddress}

\* a body of exactly max_chars characters
FULL_BODY == [n \in 1..max_chars |-> "a"]

\* a body one character longer than max_chars
LONG_BODY == [n \in 1..(max_chars + 1) |-> IF n > max_chars THEN "Z" ELSE "a"]

BodyValues == {<<>>, <<"h", "i">>}

\* bodies at and above the truncation limit, for the standalone call, the
\* only one that embeds the body in its prompt
LongBodyValues == {FULL_BODY, LONG_BODY}

\* what get_message_details can return for the requested message
Messages ==
    { [id |-> MESSAGE_ID, in_reply_to |-> r, thread_id |-> t, from |-> f, body |-> b] :
        r \in BOOLEAN, t \in BOOLEAN, f \in {FromSelf, FromOther}, b \in BodyValues }
    \cup { [id |-> MESSAGE_ID, in_reply_to |-> FALSE, thread_id |-> TRUE, from |-> FromOther,
            body |-> b] : b \in LongBodyValues }

\* the other messages of the thread
ThreadDetails(msg_id, current) ==
    CASE msg_id = MESSAGE_ID -> current
      [] msg_id = "p1" -> [id |-> "p1", in_reply_to |-> FALSE, thread_id |-> TRUE,
                           from |-> FromOther, body |-> <<"o", "k">>]
      [] msg_id = "p2" -> [id |-> "p2", in_reply_to |-> TRUE, thread_id |-> TRUE,
                           from |-> FromSelf, body |-> <<"n", "o">>]
      [] OTHER -> [id |-> "p3", in_reply_to |-> TRUE, thread_id |-> TRUE,
                   from |-> FromOther, body |-> <<"y", "e", "s">>]

\* what list_messages(thread_id=...) can return: ids in the listing order
ThreadListings ==
    { <<>>, <<"x">>, <<"p1">>, <<"x", "p1">>, <<"p1", "x">>, <<"p1", "p2", "x">>,
      <<"p2", "p1", "x">>, <<"p1", "x", "p2">>, <<"p2", "x">>,
      <<"p1", "p2", "p3", "x">> }

\* mutant: the address is never found in the sender
ContainsNever(sub, text) == FALSE

\* sub in text
Contains(sub, text) ==
    \E i \in 1..(Len(text) - Len(sub) + 1) : SubSeq(text, i, i + Len(sub) - 1) = sub

\* mutant: an address that could not be retrieved matches every sender
IsUserUnchecked(ue, from_part) == Contains(ue, from_part)

\* user_email and user_email in from_part; ue = <<>> stands for None
IsUser(ue, from_part) == ue # <<>> /\ Contains(ue, from_part)

\* x.get("internalDate", "0"): the details dict never has that key
InternalDateKey(msg) == 0

RECURSIVE InsertSorted(_, _)
\* stable insertion by key
InsertSorted(list, msg) ==
    IF list = <<>> THEN <<msg>>
    ELSE IF InternalDateKey(list[Len(list)]) <= InternalDateKey(msg)
         THEN Append(list, msg)
         ELSE Append(InsertSorted(SubSeq(list, 1, Len(list) - 1), msg), list[Len(list)])

RECURSIVE SortByInternalDate(_)
\* details_list.sort(key=lambda x: x.get("internalDate", "0"))
SortByInternalDate(list) ==
    IF list = <<>> THEN <<>>
    ELSE InsertSorted(SortByInternalDate(SubSeq(list, 1, Len(list) - 1)), list[Len(list)])

\* the loop of lines 194-198, 0-based; -1 when absent
CurrentMessageIndex(list) ==
    IF \E i \in 1..Len(list) : list[i].id = MESSAGE_ID
    THEN (CHOOSE i \in 1..Len(list) :
              /\ list[i].id = MESSAGE_ID
              /\ \A j \in 1..(i - 1) : list[j].id # MESSAGE_ID) - 1
    ELSE 0 - 1

\* mutant: the slice runs up to and including the current message
ContextMessagesWithCurrent(list, index) ==
    SubSeq(list, (IF index - 2 > 0 THEN index - 2 ELSE 0) + 1, index + 1)

\* details_list[max(0, index - 2) : index]
ContextMessages(list, index) ==
    SubSeq(list, (IF index - 2 > 0 THEN index - 2 ELSE 0) + 1, index)

BODY_LIMIT == 500

\* one block of the context text (lines 206-218)
ContextBlock(n, msg, ue) ==
    [n |-> n, separator |-> [label |-> "Message", n |-> n], from |-> msg.from,
     sender_type |-> IF IsUser(ue, msg.from) THEN "You" ELSE "Other party",
     body |-> IF Len(msg.body) > BODY_LIMIT THEN SubSeq(msg.body, 1, BODY_LIMIT) ELSE msg.body,
     truncated |-> Len(msg.body) > BODY_LIMIT]

\* the context text: the header followed by one block per preceding message
BuildThreadContext(context_messages, ue) ==
    [header |-> "Previous messages in this conversation:",
     blocks |-> [n \in 1..Len(context_messages) |->
                    ContextBlock(n, context_messages[n], ue)]]

SelfReplySuggestions ==
    << Lit("Did you mean to add more information to your previous message?"),
       Lit("Replying to your own message in a thread. Continue here or reply to the last message from the other party?"),
       Lit("Forward this thread?") >>

Success(suggestions) == [kind |-> "success", suggestions |-> suggestions, error |-> NoError]

Failure(err) == [kind |-> "error", suggestions |-> <<>>, error |-> err]

ClassifiedErrors == {"AuthError", "GmailApiError", "NotFoundError", "OllamaError"}

\* mutant: every exception is passed on as it is
route_error_passthrough(err) == err

\* the except clauses of the route (lines 254-258)
route_error(err) ==
    IF err.class \in ClassifiedErrors THEN err
    ELSE Error("OllamaError", 503, "Error generating suggestions")

\* the handler ends with an exception
RouteRaise(err) ==
    /\ responses' = Append(responses, Failure(route_error(err)))
    /\ pc' = "finished"

NOT_AUTHENTICATED == Error("AuthError", 401, "Not authenticated")

\* mutant: the handler goes on whatever check_auth_status returned
AuthGateOpen(authenticated) == TRUE

\* not (not auth_service.check_auth_status())
AuthGate(authenticated) == authenticated

\* if not auth_service.check_auth_status(): raise AuthError  (outside the try)
\* the first statement of every route of emails_bp
CheckAuth ==
    /\ pc = "start"
    /\ calls' = Append(calls, "check_auth_status")
    /\ \E authenticated \in BOOLEAN :
          /\ auth_status' = IF authenticated THEN "yes" ELSE "no"
          /\ IF AuthGate(authenticated)
             THEN /\ pc' = IF route = "suggestions" THEN "fetch" ELSE "handle"
                  /\ UNCHANGED responses
             ELSE /\ responses' = Append(responses, Failure(NOT_AUTHENTICATED))
                  /\ pc' = "finished"
    /\ UNCHANGED <<route, max_retries, details, is_reply, thread_listing, details_list,
                   thread_context, user_email, llmVars, decodeVars, batchVars, funcVars>>

\* the routes of emails_bp
Routes == {"list", "get", "suggestions", "archive", "delete", "send", "modify"}

\* the "action" of the body of POST /emails/<id>/modify
ModifyActions == {"trash", "archive", "labels", "nothing"}

\* the method of the mail service a route calls after get_gmail_service()
MailCall(r, action) ==
    CASE r = "list" -> "list_messages"
      [] r = "get" -> "get_message_details"
      [] r = "archive" -> "archive_message"
      [] r = "delete" -> "delete_message"
      [] r = "send" -> "send_email"
      [] r = "modify" /\ action = "trash" -> "delete_message"
      [] r = "modify" /\ action = "archive" -> "archive_message"
      [] OTHER -> "modify_message_labels"

\* the exception of "if not result: raise ..." in each route
FalsyResultError(r) ==
    IF r = "get" THEN Error("NotFoundError", 404, "Message not found")
    ELSE Error("GmailApiError", 500, "Failed")

\* a handler other than get_suggestions ends with an exception its except
\* clauses re-raise (ValidationError, GmailApiError, NotFoundError)
HandlerRaise(err) ==
    /\ responses' = Append(responses, Failure(err))
    /\ pc' = "finished"

\* the handlers of the routes other than suggestions, after the
\* authentication check: request data, get_gmail_service(), the call of the
\* mail service, the response (list_emails 32-119, get_email 130-145,
\* archive_email 270-291, delete_email 303-324, send_email 336-373,
\* modify_email_labels 385-440)
HandleRequest ==
    /\ pc = "handle"
    /\ \E data_ok \in BOOLEAN, service_ok \in BOOLEAN, action \in ModifyActions,
          outcome \in {"ok", "falsy", "raises"} :
          IF route \in {"send", "modify"} /\ ~data_ok
          THEN /\ HandlerRaise(Error("ValidationError", 400, "No data provided"))
               /\ UNCHANGED calls
          ELSE IF ~service_ok
          THEN /\ calls' = Append(calls, "get_gmail_service")
               /\ HandlerRaise(Error("GmailApiError", 500, "Failed to initialize Gmail service"))
          ELSE IF route = "modify" /\ action = "nothing"
          THEN /\ calls' = Append(calls, "get_gmail_service")
               /\ HandlerRaise(Error("ValidationError", 400,
                                   "No action or label modifications specified"))
          ELSE /\ calls' = calls \o <<"get_gmail_service", MailCall(route, action)>>
               /\ CASE outcome = "ok" \/ (outcome = "falsy" /\ route = "list") ->
                         /\ responses' = Append(responses, Success(<<>>))
                         /\ pc' = "finished"
                    [] outcome = "falsy" ->
                         HandlerRaise(FalsyResultError(route))
                    [] OTHER ->
                         HandlerRaise(Error("GmailApiError", 500, "Gmail API error"))
    /\ UNCHANGED <<route, auth_status, max_retries, details, is_reply, thread_listing,
                   details_list, thread_context, user_email, llmVars, decodeVars, batchVars,
                   funcVars>>

\* what the remote call of get_message_details can raise
DetailsExceptions ==
    { [kind |-> "HttpError", status |-> 404, label |-> "HttpError 404"],
      [kind |-> "HttpError", status |-> 500, label |-> "HttpError 500"],
      [kind |-> "socket.timeout", status |-> 0, label |-> "socket.timeout"],
      [kind |-> "Exception", status |-> 0, label |-> "Exception"] }

\* mutant: an absent message is reported like any other API failure
message_details_error_generic(exc) ==
    Error("GmailApiError", 500, "Error getting message details")

\* the except clauses of GmailApiService.get_message_details
message_details_error(exc) ==
    CASE exc.kind = "HttpError" /\ exc.status = 404 ->
           Error("NotFoundError", 404, "Message not found")
      [] exc.kind = "HttpError" ->
           Error("GmailApiError", exc.status, "Failed to get message details")
      [] exc.kind = "socket.timeout" ->
           Error("GmailApiError", 504, "Request to get message details timed out")
      [] OTHER -> Error("GmailApiError", 500, "Error getting message details")

\* lines 159-165
FetchDetails ==
    /\ pc = "fetch"
    /\ \E outcome \in {"no service", "ok", "raises"} :
          CASE outcome = "no service" ->
                 /\ calls' = Append(calls, "get_gmail_service")
                 /\ RouteRaise(Error("GmailApiError", 500, "Failed to initialize Gmail service"))
                 /\ UNCHANGED details
            [] outcome = "ok" ->
                 /\ calls' = calls \o <<"get_gmail_service", "get_message_details">>
                 /\ details' \in Messages
                 /\ pc' = "context"
                 /\ UNCHANGED responses
            [] OTHER ->
                 \E exc \in DetailsExceptions :
                    /\ calls' = calls \o <<"get_gmail_service", "get_message_details",
                                           exc.label>>
                    /\ RouteRaise(message_details_error(exc))
                    /\ UNCHANGED details
    /\ UNCHANGED <<route, auth_status, max_retries, is_reply, thread_listing, details_list,
                   thread_context, user_email, llmVars, decodeVars, batchVars, funcVars>>

MaxFetchFailures == 1

RECURSIVE FetchThread(_, _, _)
\* the loop of lines 180-188: a message whose fetch fails is skipped
FetchThread(ids, failed, current) ==
    IF ids = <<>> THEN <<>>
    ELSE (IF ids[1] \in failed THEN <<>> ELSE <<ThreadDetails(ids[1], current)>>)
         \o FetchThread(Tail(ids), failed, current)

\* mutant: every message is taken for a reply
IsReplyMessageAlways(msg) == TRUE

\* "in_reply_to" in details and details["in_reply_to"]
IsReplyMessage(msg) == msg.in_reply_to

\* lines 167-218
BuildContext ==
    /\ pc = "context"
    /\ IF ~IsReplyMessage(details)
       THEN /\ pc' = "decide"
            /\ UNCHANGED <<is_reply, thread_listing, details_list, thread_context,
                           user_email, calls, responses>>
       ELSE /\ is_reply' = TRUE
            /\ IF ~details.thread_id
               THEN /\ pc' = "decide"
                    /\ UNCHANGED <<thread_listing, details_list, thread_context,
                                   user_email, calls, responses>>
               ELSE \E listing_ok \in BOOLEAN :
                      IF ~listing_ok
                      THEN /\ calls' = Append(calls, "list_messages")
                           /\ RouteRaise(Error("GmailApiError", 500, "Gmail API error"))
                           /\ UNCHANGED <<thread_listing, details_list, thread_context,
                                          user_email>>
                      ELSE \E ids \in ThreadListings :
                           \E failed \in SUBSET Elems(ids) :
                           \E ue \in UserEmails :
                             LET list == SortByInternalDate(FetchThread(ids, failed, details))
                                 index == CurrentMessageIndex(list)
                                 fetches == [n \in 1..Len(ids) |-> "get_message_details"]
                             IN /\ Cardinality(failed) <= MaxFetchFailures
                                /\ thread_listing' = ids
                                /\ details_list' = list
                                /\ IF index > 0
                                   THEN /\ user_email' = ue
                                        /\ thread_context' =
                                            BuildThreadContext(ContextMessages(list, index), ue)
                                        /\ calls' = calls \o <<"list_messages">> \o fetches
                                                          \o <<"get_user_email">>
                                   ELSE /\ ue = <<>>
                                        /\ UNCHANGED user_email
                                        /\ thread_context' = NoContext
                                        /\ calls' = calls \o <<"list_messages">> \o fetches
                                /\ pc' = "decide"
                                /\ UNCHANGED responses
    /\ UNCHANGED <<route, auth_status, max_retries, details, llmVars, decodeVars, batchVars,
                   funcVars>>

\* lines 220-252: the self-reply short circuit, or the call of the LLM service
Decide ==
    /\ pc = "decide"
    /\ IF is_reply
       THEN \E ue \in UserEmails :
              LET current_from == details.from
                  is_replying_to_self == IsUser(ue, current_from)
              IN /\ user_email' = ue
                 /\ IF is_replying_to_self
                    THEN /\ calls' = Append(calls, "get_user_email")
                         /\ responses' = Append(responses, Success(SelfReplySuggestions))
                         /\ pc' = "finished"
                         /\ UNCHANGED llmVars
                    ELSE /\ calls' = calls \o <<"get_user_email", "get_suggestions_with_context">>
                         /\ LlmCall("get_suggestions_with_context", details.body)
                         /\ pc' = "llm"
                         /\ UNCHANGED responses
       ELSE /\ calls' = Append(calls, "get_suggestions")
            /\ LlmCall("get_suggestions", details.body)
            /\ pc' = "llm"
            /\ UNCHANGED <<user_email, responses>>
    /\ UNCHANGED <<route, auth_status, max_retries, details, is_reply, thread_listing,
                   details_list, thread_context, decodeVars, batchVars, funcVars>>

\* the call of the LLM service returns or raises (lines 249-258)
Respond ==
    /\ pc = "llm" /\ llm_state \in {"done", "failed", "raised"}
    /\ IF llm_state = "done"
       THEN /\ responses' = Append(responses, Success(llm_result))
            /\ pc' = "finished"
       ELSE RouteRaise(llm_error)
    /\ UNCHANGED <<route, auth_status, max_retries, details, is_reply, thread_listing,
                   details_list, thread_context, user_email, calls, llmVars, decodeVars,
                   batchVars, funcVars>>

Init ==
    /\ pc = "start"
    /\ route \in Routes
    /\ max_retries \in 0..MaxRetriesCfg
    /\ RouteIdle
    /\ LlmIdle
    /\ DecodeIdle
    /\ BatchIdle
    /\ ParseIdle
    /\ SecretsIdle
    /\ ConstructIdle

Next ==
    \/ CheckAuth
    \/ HandleRequest
    \/ FetchDetails
    \/ BuildContext
    \/ Decide
    \/ LlmTransientError
    \/ LlmResponse
    \/ LlmLoopExit
    \/ Respond

Spec == Init /\ [][Next]_vars

\* the handler and the retry loop run to completion once started
FairSpec == Spec /\ WF_vars(Next)

(***************************************************************************)
(* The retry loop: claims C3, C4, C5                                       *)
(***************************************************************************)
LoopEntered == llm_state \in {"attempt", "done", "failed"} /\ attempt >= 1

SleptConfiguredDelay(n) ==
    /\ Len(sleep_log) = n
    /\ \A i \in 1..Len(sleep_log) : sleep_log[i] = retry_delay

\* C3: when the first k attempts fail with a transient error and attempt k+1
\* answers with parseable output (k < max_retries), the call returns the parse
\* of that answer, after exactly k+1 requests and exactly k sleeps of the
\* configured delay.
C3_RetryThenSuccess ==
    (llm_state = "done" /\ n_empty = 0) =>
        /\ n_transient < max_retries
        /\ llm_result = parse_suggestions(last_raw)
        /\ llm_result # <<>>
        /\ post_count = n_transient + 1
        /\ SleptConfiguredDelay(n_transient)

C3_Witness ==
    /\ llm_state = "done" /\ n_empty = 0 /\ n_transient = 2 /\ max_retries = 3
    /\ post_count = 3 /\ Len(sleep_log) = 2
    /\ llm_mode = "get_suggestions_with_context"

UNEXPECTED == "Unexpected error: all retries failed but no exception was raised"

C4_Bound ==
    /\ post_count <= max_retries
    /\ Len(sleep_log) <= post_count
    /\ (llm_error.message = UNEXPECTED => max_retries < 1)
    /\ (llm_state = "failed" => llm_error.class = "OllamaError")

C4_TransientStep ==
    (llm_state = "attempt" /\ n_transient' = n_transient + 1) =>
        /\ post_count' = post_count + 1
        /\ IF attempt < max_retries
           THEN /\ llm_state' = "attempt"
                /\ attempt' = attempt + 1
                /\ sleep_log' = Append(sleep_log, retry_delay)
           ELSE /\ llm_state' = "failed"
                /\ sleep_log' = sleep_log

C4_Ended ==
    llm_state \in {"done", "failed"} =>
        /\ post_count' = post_count
        /\ sleep_log' = sleep_log
        /\ llm_state' = llm_state

ValidBodyCall == llm_mode # "none" /\ details.body # <<>>

NoSuggestionExtracted(raw_response) ==
    /\ raw_response # <<>>
    /\ LET lines == SplitLines(Strip(raw_response), <<>>)
       IN /\ NumberedLoop(lines, <<>>, <<>>, FALSE) = <<>>
          /\ QualityFilter(FallbackLoop(lines, <<>>)) = <<>>

\* C5 as stated: a call never ends in Done on a text that is empty or from
\* which no suggestion can be parsed.
C5_Original ==
    llm_state = "done" => (last_raw # <<>> /\ ~NoSuggestionExtracted(last_raw))

C5_EmptyStep ==
    (llm_state = "attempt" /\ n_empty' = n_empty + 1) =>
        /\ last_raw' = <<>>
        /\ post_count' = post_count + 1
        /\ IF attempt < max_retries
           THEN /\ llm_state' = "attempt"
                /\ attempt' = attempt + 1
                /\ sleep_log' = Append(sleep_log, retry_delay)
           ELSE /\ llm_state' = "failed"
                /\ sleep_log' = sleep_log

\* C5: a response with empty text never ends the call in Done: at attempt
\* n < max_retries it is followed by a wait of the fixed delay and attempt n+1,
\* at attempt n = max_retries by Failed.  A response with non-empty text from
\* which no suggestion is extracted ends the call in Done with the three fixed
\* fallback suggestions.
C5_EmptyResponse ==
    /\ [](llm_state = "done" => last_raw # <<>> /\ llm_result # <<>>)
    /\ []((llm_state = "done" /\ NoSuggestionExtracted(last_raw)) =>
             llm_result = FallbackSuggestions)
    /\ [][C5_EmptyStep]_vars

C5_Witness ==
    /\ llm_state = "done" /\ n_empty = 1 /\ n_transient = 0
    /\ NoSuggestionExtracted(last_raw)
    /\ llm_result = FallbackSuggestions
    /\ Len(sleep_log) = 1

(***************************************************************************)
(* The suggestions route: claims C6, C7, C8                                *)
(***************************************************************************)
FromUser == details.from = FromSelf

BackendCalled == llm_mode # "none"

Succeeded == pc = "finished" /\ Len(responses) = 1 /\ responses[1].kind = "success"

\* C6 as stated: a message from the user's own address gets the fixed set and
\* no backend call, with or without an in-reply-to header.
C6_Original ==
    FromUser =>
        /\ ~BackendCalled
        /\ (Succeeded => responses[1].suggestions = SelfReplySuggestions)

\* C6: a request on a message that carries an in-reply-to header, for which
\* get_user_email returns the user's address and whose "from" contains it,
\* returns the fixed self-reply set without a backend call.  A message from
\* the user without that header, or with the address unavailable, goes to the
\* backend.
C6_SelfReply ==
    /\ (pc = "finished" /\ is_reply /\ user_email = UserAddress /\ FromUser) =>
           /\ responses = <<Success(SelfReplySuggestions)>>
           /\ ~BackendCalled
           /\ post_count = 0
    /\ (FromUser /\ BackendCalled) => (~details.in_reply_to \/ user_email = <<>>)
    /\ (FromUser /\ BackendCalled /\ ~details.in_reply_to) => llm_mode = "get_suggestions"

C6_Witness ==
    /\ pc = "finished" /\ is_reply /\ user_email = UserAddress /\ FromUser
    /\ responses = <<Success(SelfReplySuggestions)>>
    /\ \A i \in 1..Len(calls) :
          calls[i] \notin {"get_suggestions", "get_suggestions_with_context", "requests.post"}

\* C7 as stated: the context call is made only with a non-empty context; a
\* reply whose context came out empty gets the standalone call.
C7_Original ==
    /\ (llm_mode = "get_suggestions_with_context" => thread_context # NoContext)
    /\ (BackendCalled /\ thread_context = NoContext) => llm_mode = "get_suggestions"
    /\ (Succeeded /\ ~BackendCalled) => responses[1].suggestions = SelfReplySuggestions

RequestEnded == pc = "finished" /\ Len(responses) = 1

\* C8: a request ends with exactly one response; for a suggestions request
\* it is either a success with a non-empty suggestion list or one error of
\* class AuthError, GmailApiError, NotFoundError or OllamaError, and an
\* exception of any other class is reported as OllamaError.
C8_OneOutcome ==
    /\ [](Len(responses) <= 1 /\ (pc = "finished" <=> Len(responses) = 1))
    /\ [](route = "suggestions" =>
             \A i \in 1..Len(responses) :
                \/ /\ responses[i].kind = "success"
                   /\ responses[i].suggestions # <<>>
                   /\ responses[i].error = NoError
                \/ /\ responses[i].kind = "error"
                   /\ responses[i].suggestions = <<>>
                   /\ responses[i].error.class \in ClassifiedErrors)
    /\ []((RequestEnded /\ llm_state = "raised") => responses[1].error.class = "OllamaError")
    /\ <>RequestEnded

C8_Witness ==
    /\ RequestEnded /\ llm_state = "raised" /\ llm_error.class = "AttributeError"
    /\ responses[1].kind = "error" /\ responses[1].error.class = "OllamaError"

(***************************************************************************)
(* Input validation of the suggestion call: claim C11                      *)
(***************************************************************************)
BAD_REQUEST == Error("OllamaError", 400, "Email body must be non-empty string")

C12_Original ==
    llm_state = "done" =>
        /\ Len(llm_result) >= 1
        /\ Len(llm_result) <= 3
        /\ llm_result = parse_suggestions(last_raw)

(***************************************************************************)
(* Thread context: claims C13, C14                                         *)
(***************************************************************************)
CallCount(name) == Cardinality({ i \in 1..Len(calls) : calls[i] = name })

DetailsFetched == details # NoDetails

\* C13: for a message without an in-reply-to header the thread context is the
\* empty string, and the request makes no thread listing, no fetch of a
\* thread message and no context assembly.
C13_NoReplyNoContext ==
    (DetailsFetched /\ ~details.in_reply_to) =>
        /\ thread_context = NoContext
        /\ ~is_reply
        /\ thread_listing = <<>>
        /\ details_list = <<>>
        /\ CallCount("list_messages") = 0
        /\ CallCount("get_message_details") = 1
        /\ CallCount("get_user_email") = 0
        /\ (BackendCalled => llm_mode = "get_suggestions")

C13_Witness ==
    /\ DetailsFetched /\ ~details.in_reply_to /\ details.thread_id
    /\ RequestEnded /\ llm_mode = "get_suggestions" /\ llm_state = "done"
    /\ thread_context = NoContext

\* the internalDate the mail service keeps for each message of the thread;
\* get_message_details does not copy it into the details it returns
InternalDate(msg_id) ==
    CASE msg_id = "p1" -> 1
      [] msg_id = MESSAGE_ID -> 2
      [] OTHER -> 3

RECURSIVE InsertByDate(_, _)
InsertByDate(list, msg) ==
    IF list = <<>> THEN <<msg>>
    ELSE IF InternalDate(list[Len(list)].id) <= InternalDate(msg.id)
         THEN Append(list, msg)
         ELSE Append(InsertByDate(SubSeq(list, 1, Len(list) - 1), msg), list[Len(list)])

RECURSIVE Chronological(_)
\* the list ordered ascending by the chronological marker
Chronological(list) ==
    IF list = <<>> THEN <<>>
    ELSE InsertByDate(Chronological(SubSeq(list, 1, Len(list) - 1)), list[Len(list)])

ContextBuilt == is_reply /\ pc \in {"decide", "llm", "finished"}

CurrentIsFirstOrAbsent(list) ==
    \/ \A i \in 1..Len(list) : list[i].id # MESSAGE_ID
    \/ list[1].id = MESSAGE_ID

\* C14 as stated: when the current message is the first entry of the thread
\* list ordered ascending by chronological marker, or is not in the fetched
\* list, the thread context is the empty string even with in-reply-to set.
C14_Original ==
    (ContextBuilt /\ CurrentIsFirstOrAbsent(Chronological(details_list)))
        => thread_context = NoContext

(***************************************************************************)
(* _parse_suggestions on texts made of numbered lines: claim C15           *)
(***************************************************************************)
MaxLines == 3

CALL_THEM_BACK == <<"C", "a", "l", "l", " ", "t", "h", "e", "m", " ", "b", "a", "c", "k">>

SEND_FOLLOW_UP == <<"S", "e", "n", "d", " ", "a", " ", "f", "o", "l", "l", "o", "w", "-", "u", "p", " ", "e", "m", "a", "i", "l">>

DECLINE_POLITELY == <<"D", "e", "c", "l", "i", "n", "e", " ", "p", "o", "l", "i", "t", "e", "l", "y">>

OK_TEXT == <<"o", "k">>

ItemTexts == {CALL_THEM_BACK, SEND_FOLLOW_UP, DECLINE_POLITELY, OK_TEXT}

Digits == <<"1", "2", "3", "4", "5", "6", "7", "8", "9">>

\* the digit that numbers line n: its position, or "1" on every line
DigitOf(scheme, n) == IF scheme = "position" THEN Digits[n] ELSE "1"

NumberedInputs ==
    UNION { { [n \in 1..len |-> [digit |-> DigitOf(scheme, n), text |-> texts[n]]] :
                texts \in [1..len -> ItemTexts] } :
            len \in 1..MaxLines, scheme \in {"position", "same"} }

RECURSIVE NumberedText(_)
\* the response text: one line "d. text" per item, separated by "\n"
NumberedText(items) ==
    IF items = <<>> THEN <<>>
    ELSE <<Head(items).digit, ".", " ">> \o Head(items).text
         \o (IF Len(items) > 1 THEN <<"\n">> \o NumberedText(Tail(items)) ELSE <<>>)

ParseInit ==
    /\ numbered_items \in NumberedInputs
    /\ parse_result = NoParse
    /\ SecretsIdle
    /\ ConstructIdle
    /\ DecodeIdle
    /\ BatchIdle
    /\ PipeIdle

\* suggestions = self._parse_suggestions(raw_response)
ParseSuggestions ==
    /\ ~parse_result.done
    /\ numbered_items # <<>>
    /\ parse_result' = [done |-> TRUE,
                        suggestions |-> parse_suggestions(NumberedText(numbered_items))]
    /\ UNCHANGED <<numbered_items, env_content, env_path, secrets_file, secrets_result,
                   llm_config, llm_client, decodeVars, batchVars, pipeVars>>

ParseNext == ParseSuggestions

SpecParse == ParseInit /\ [][ParseNext]_vars

\* C15: applied to a text of N numbered lines "d. text", _parse_suggestions
\* returns exactly the N texts, in order, without the numbering.
C15_NumberedLines ==
    parse_result.done =>
        parse_result.suggestions =
            [n \in 1..Len(numbered_items) |-> Str(numbered_items[n].text)]

C15_Witness ==
    /\ parse_result.done
    /\ numbered_items = << [digit |-> "1", text |-> CALL_THEM_BACK],
                           [digit |-> "2", text |-> SEND_FOLLOW_UP],
                           [digit |-> "3", text |-> DECLINE_POLITELY] >>
    /\ parse_result.suggestions =
          <<Str(CALL_THEM_BACK), Str(SEND_FOLLOW_UP), Str(DECLINE_POLITELY)>>

(***************************************************************************)
(* A message the mail service does not have: claim C16                     *)
(***************************************************************************)
Called(name) == \E i \in 1..Len(calls) : calls[i] = name

NOT_FOUND == Error("NotFoundError", 404, "Message not found")

\* C16: when the mail service answers the fetch of message X with 404, the
\* request ends with NotFoundError (not OllamaError, not GmailApiError), and
\* makes no thread listing, no user-address lookup and no backend call.
C16_NotFound ==
    Called("HttpError 404") =>
        /\ RequestEnded
        /\ responses = <<Failure(NOT_FOUND)>>
        /\ ~DetailsFetched
        /\ ~Called("list_messages")
        /\ ~Called("get_user_email")
        /\ ~BackendCalled
        /\ post_count = 0

C16_Witness ==
    /\ Called("HttpError 404")
    /\ RequestEnded
    /\ responses[1].error.class = "NotFoundError"
    /\ responses[1].error.code = 404
    /\ calls = <<"check_auth_status", "get_gmail_service", "get_message_details",
                 "HttpError 404">>

(***************************************************************************)
(* The chunk loop of list_emails: claims C17, C19, C20                     *)
(***************************************************************************)
\* the ids a returned batch call reported as failed
FailedItems(entry) ==
    { m \in DictKeys(entry.result) : DictValue(entry.result, m) = NoneMeta }

\* C17 as stated: after a chunk is merged, every identifier whose fetch
\* failed is present in the aggregate mapping, with the null marker unless
\* another chunk fetched it.
C17_Original ==
    \A j \in 1..Len(chunk_log) :
        chunk_log[j].outcome = "returned" =>
            FailedItems(chunk_log[j]) \subseteq DictKeys(all_metadata_results)

\* ceil(N / chunk size)
ChunkCount == (Len(message_ids) + chunk_size - 1) \div chunk_size

EmailIds == { emails[j].id : j \in 1..Len(emails) }

\* some batch call returned populated metadata for the id
ReturnedWith(m) ==
    \E j \in 1..Len(chunk_log) :
        /\ chunk_log[j].outcome = "returned"
        /\ m \in DictKeys(chunk_log[j].result)
        /\ DictValue(chunk_log[j].result, m) # NoneMeta

OnlyInFailedChunks(m) ==
    \A j \in 1..Len(chunk_log) :
        m \in Elems(chunk_log[j].ids) => chunk_log[j].outcome = "raised"

\* C19: when the batch call of a chunk fails as a whole, list_emails still
\* dispatches every later chunk and returns a success payload; the results
\* of the chunks that returned are kept, and no identifier of the failed
\* chunk is among the returned emails, even when some of its callbacks had
\* stored metadata before the failure.  (Identifiers of a listing are
\* distinct; an identifier repeated in a chunk that returned comes from that
\* chunk.)
C19_ChunkFailure ==
    bpc = "done" =>
        /\ Len(chunk_log) = ChunkCount
        /\ \A j \in 1..Len(chunk_log) : chunk_log[j].outcome \in {"returned", "raised"}
        /\ EmailIds = { m \in Elems(message_ids) : ReturnedWith(m) }
        /\ \A j \in 1..Len(emails) :
              \E n \in 1..Len(chunk_log) :
                 /\ chunk_log[n].outcome = "returned"
                 /\ emails[j].id \in DictKeys(chunk_log[n].result)
                 /\ DictValue(chunk_log[n].result, emails[j].id) = emails[j]
        /\ \A j \in 1..Len(chunk_log) :
              chunk_log[j].outcome = "raised" =>
                 \A m \in Elems(chunk_log[j].ids) :
                    OnlyInFailedChunks(m) => m \notin EmailIds

C19_Witness ==
    /\ bpc = "done" /\ Len(chunk_log) = 3
    /\ chunk_log[1].outcome = "returned"
    /\ chunk_log[2].outcome = "raised"
    /\ chunk_log[3].outcome = "returned"
    /\ \E m \in DictKeys(chunk_log[2].result) :
          /\ DictValue(chunk_log[2].result, m) # NoneMeta
          /\ OnlyInFailedChunks(m)
          /\ m \notin EmailIds
    /\ Len(emails) = 1
    /\ emails[1].id \in DictKeys(chunk_log[1].result)

InFlight == { j \in 1..Len(chunk_log) : chunk_log[j].outcome = "in flight" }

\* C20: the identifiers are cut into consecutive chunks of at most the chunk
\* size (15 in the route), in input order, and the batch calls are made one
\* after another: a call is in flight only while it is the last one
\* dispatched, callbacks run only for that call, and a finished listing has
\* made exactly ceil(N / chunk size) batch calls.
C20_Sequential ==
    /\ Cardinality(InFlight) <= 1
    /\ (bpc = "execute" <=> InFlight = {Len(chunk_log)})
    /\ (bpc # "execute" => InFlight = {})
    /\ (chunk_log # <<>> =>
           (DictKeys(delivered) \cup pending) \subseteq Elems(chunk_log[Len(chunk_log)].ids))
    /\ \A j \in 1..Len(chunk_log) :
          /\ chunk_log[j].ids = SubSeq(message_ids, (j - 1) * chunk_size + 1,
                                       Min(j * chunk_size, Len(message_ids)))
          /\ Len(chunk_log[j].ids) >= 1
          /\ Len(chunk_log[j].ids) <= METADATA_BATCH_CHUNK_SIZE
    /\ Len(chunk_log) <= ChunkCount
    /\ (bpc = "done" => Len(chunk_log) = ChunkCount)

C20_Witness ==
    /\ bpc = "done" /\ chunk_size = 2 /\ Len(message_ids) = 3
    /\ Len(chunk_log) = 2
    /\ chunk_log[1].outcome = "raised"
    /\ chunk_log[2].outcome = "returned"
    /\ Len(chunk_log[1].ids) = 2 /\ Len(chunk_log[2].ids) = 1

(***************************************************************************)
(* GoogleAuthService._load_client_secrets_from_env.  json.loads is        *)
(* modelled by a parser for objects, arrays, strings, integers and the     *)
(* literals; a parsed document is kept as its kind and its text without    *)
(* insignificant whitespace.                                               *)
(***************************************************************************)
JsonWs == {" ", "\n", "\t", "\r"}

RECURSIVE SkipWs(_)
SkipWs(t) == IF t # <<>> /\ Head(t) \in JsonWs THEN SkipWs(Tail(t)) ELSE t

JsonFail == [ok |-> FALSE, kind |-> "", canon |-> <<>>, rest |-> <<>>]

JsonOk(kind, canon, rest) == [ok |-> TRUE, kind |-> kind, canon |-> canon, rest |-> rest]

RECURSIVE ScanString(_, _)
\* the characters of a string up to its closing quote; acc holds the text so far
ScanString(t, acc) ==
    IF t = <<>> THEN JsonFail
    ELSE IF Head(t) = "\"" THEN JsonOk("string", Append(acc, "\""), Tail(t))
    ELSE IF Head(t) = "\\"
         THEN IF Len(t) < 2 THEN JsonFail
              ELSE ScanString(SubSeq(t, 3, Len(t)), acc \o SubSeq(t, 1, 2))
    ELSE IF Head(t) = "\n" THEN JsonFail
    ELSE ScanString(Tail(t), Append(acc, Head(t)))

RECURSIVE ScanDigits(_, _)
ScanDigits(t, acc) ==
    IF t # <<>> /\ IsDigit(Head(t)) THEN ScanDigits(Tail(t), Append(acc, Head(t)))
    ELSE IF acc = <<>> THEN JsonFail ELSE JsonOk("number", acc, t)

JsonLiteral(t, word) ==
    IF StartsWith(t, word)
    THEN JsonOk(IF word = <<"n", "u", "l", "l">> THEN "null" ELSE "boolean",
                word, SubSeq(t, Len(word) + 1, Len(t)))
    ELSE JsonFail

RECURSIVE JsonValue(_)
RECURSIVE JsonMembers(_, _)
RECURSIVE JsonElements(_, _)
\* one value, leading whitespace skipped
JsonValue(text) ==
    LET t == SkipWs(text)
    IN IF t = <<>> THEN JsonFail
       ELSE IF Head(t) = "\"" THEN ScanString(Tail(t), <<"\"">>)
       ELSE IF Head(t) = "{"
            THEN IF SkipWs(Tail(t)) # <<>> /\ Head(SkipWs(Tail(t))) = "}"
                 THEN JsonOk("object", <<"{", "}">>, Tail(SkipWs(Tail(t))))
                 ELSE JsonMembers(Tail(t), <<"{">>)
       ELSE IF Head(t) = "["
            THEN IF SkipWs(Tail(t)) # <<>> /\ Head(SkipWs(Tail(t))) = "]"
                 THEN JsonOk("array", <<"[", "]">>, Tail(SkipWs(Tail(t))))
                 ELSE JsonElements(Tail(t), <<"[">>)
       ELSE IF Head(t) = "n" THEN JsonLiteral(t, <<"n", "u", "l", "l">>)
       ELSE IF Head(t) = "t" THEN JsonLiteral(t, <<"t", "r", "u", "e">>)
       ELSE IF Head(t) = "f" THEN JsonLiteral(t, <<"f", "a", "l", "s", "e">>)
       ELSE IF IsDigit(Head(t)) THEN ScanDigits(t, <<>>)
       ELSE JsonFail

\* "key": value pairs up to the closing brace
JsonMembers(text, acc) ==
    LET t == SkipWs(text)
    IN IF t = <<>> \/ Head(t) # "\"" THEN JsonFail
       ELSE LET key == ScanString(Tail(t), <<"\"">>)
                afterKey == SkipWs(key.rest)
            IN IF ~key.ok \/ afterKey = <<>> \/ Head(afterKey) # ":" THEN JsonFail
               ELSE LET val == JsonValue(Tail(afterKey))
                        afterVal == SkipWs(val.rest)
                        soFar == acc \o key.canon \o <<":">> \o val.canon
                    IN IF ~val.ok \/ afterVal = <<>> THEN JsonFail
                       ELSE IF Head(afterVal) = "}"
                            THEN JsonOk("object", Append(soFar, "}"), Tail(afterVal))
                       ELSE IF Head(afterVal) = ","
                            THEN JsonMembers(Tail(afterVal), Append(soFar, ","))
                       ELSE JsonFail

\* values up to the closing bracket
JsonElements(text, acc) ==
    LET val == JsonValue(text)
        afterVal == SkipWs(val.rest)
        soFar == acc \o val.canon
    IN IF ~val.ok \/ afterVal = <<>> THEN JsonFail
       ELSE IF Head(afterVal) = "]"
            THEN JsonOk("array", Append(soFar, "]"), Tail(afterVal))
       ELSE IF Head(afterVal) = ","
            THEN JsonElements(Tail(afterVal), Append(soFar, ","))
       ELSE JsonFail

\* json.loads(text): the document, or NoJson for json.JSONDecodeError
JsonLoads(text) ==
    LET r == JsonValue(text)
    IN IF r.ok /\ SkipWs(r.rest) = <<>>
       THEN [ok |-> TRUE, kind |-> r.kind, canon |-> r.canon]
       ELSE NoJson

JSON_WEB == <<"{", "\"", "w", "e", "b", "\"", ":", "{", "\"", "c", "l", "i", "e", "n", "t", "_", "i", "d", "\"", ":", "\"", "a", "\"", "}", "}">>

JSON_WEB_SPACED == <<" ", "{", "\"", "w", "e", "b", "\"", ":", " ", "{", "\"", "c", "l", "i", "e", "n", "t", "_", "i", "d", "\"", ":", " ", "\"", "a", "\"", "}", "}", "\n">>

JSON_FILE == <<"{", "\"", "i", "n", "s", "t", "a", "l", "l", "e", "d", "\"", ":", "{", "\"", "c", "l", "i", "e", "n", "t", "_", "i", "d", "\"", ":", "\"", "f", "\"", ",", "\"", "r", "e", "d", "i", "r", "e", "c", "t", "_", "u", "r", "i", "s", "\"", ":", "[", "\"", "u", "\"", "]", "}", "}">>

JSON_INVALID == <<"i", "n", "v", "a", "l", "i", "d", "_", "j", "s", "o", "n">>

JSON_NULL == <<"n", "u", "l", "l">>

JSON_TRUNCATED == <<"{", "\"", "w", "e", "b", "\"", ":">>

SECRETS_PATH == <<"/", "s", ".", "j", "s", "o", "n">>

Set(value) == [set |-> TRUE, value |-> value]

\* os.environ values of GOOGLE_CLIENT_SECRET_JSON_CONTENT
ContentValues ==
    {Unset, Set(<<>>), Set(JSON_WEB), Set(JSON_WEB_SPACED), Set(JSON_INVALID),
     Set(JSON_NULL), Set(JSON_TRUNCATED)}

\* os.environ values of GOOGLE_CLIENT_SECRET_JSON_PATH
PathValues == {Unset, Set(<<>>), Set(SECRETS_PATH)}

File(text) == [exists |-> TRUE, readable |-> TRUE, text |-> text]

\* the file behind the path: missing, unreadable, or readable with some text
FileStates ==
    {NoFile, [exists |-> TRUE, readable |-> FALSE, text |-> <<>>]}
    \cup { File(t) : t \in {JSON_FILE, JSON_INVALID, JSON_NULL, JSON_TRUNCATED, <<>>} }

Returned(config) == [done |-> TRUE, raised |-> "", config |-> config]

Raised(class) == [done |-> TRUE, raised |-> class, config |-> NoJson]

\* the Python value of a parsed document: the literal null is None
PyValue(doc) == IF doc.kind = "null" THEN NoJson ELSE doc

\* mutant: a load failure is swallowed and None is returned
load_client_secrets_swallow(content, path, file) ==
    IF content.set /\ content.value # <<>>
    THEN Returned(PyValue(JsonLoads(content.value)))
    ELSE IF path.set /\ path.value # <<>> /\ file.exists /\ file.readable
         THEN Returned(PyValue(JsonLoads(file.text)))
         ELSE Returned(NoJson)

\* GoogleAuthService._load_client_secrets_from_env
load_client_secrets_from_env(content, path, file) ==
    IF content.set /\ content.value # <<>>                 \* if json_content:
    THEN IF JsonLoads(content.value).ok
         THEN Returned(PyValue(JsonLoads(content.value)))
         ELSE Raised("ConfigError")
    ELSE IF path.set /\ path.value # <<>>                  \* if json_path:
         THEN IF ~file.exists THEN Raised("ConfigError")     \* FileNotFoundError
              ELSE IF ~file.readable THEN Raised("ConfigError")   \* except Exception
              ELSE IF JsonLoads(file.text).ok
                   THEN Returned(PyValue(JsonLoads(file.text)))
                   ELSE Raised("ConfigError")
         ELSE Returned(NoJson)                               \* return None

SecretsInit ==
    /\ env_content \in ContentValues
    /\ env_path \in PathValues
    /\ secrets_file \in (IF env_path = Set(SECRETS_PATH) THEN FileStates ELSE {NoFile})
    /\ secrets_result = NoSecrets
    /\ ParseIdle
    /\ ConstructIdle
    /\ DecodeIdle
    /\ BatchIdle
    /\ PipeIdle

\* client_secrets_config = self._load_client_secrets_from_env()
LoadClientSecrets ==
    /\ ~secrets_result.done
    /\ secrets_result' = load_client_secrets_from_env(env_content, env_path, secrets_file)
    /\ UNCHANGED <<env_content, env_path, secrets_file, numbered_items, parse_result,
                   llm_config, llm_client, decodeVars, batchVars, pipeVars>>

SecretsNext == LoadClientSecrets

SpecSecrets == SecretsInit /\ [][SecretsNext]_vars

(***************************************************************************)
(* Outcomes of _load_client_secrets_from_env: claim C18                    *)
(***************************************************************************)
ValidJsonTexts == {JSON_WEB, JSON_WEB_SPACED, JSON_FILE, JSON_NULL}

WEB_CONFIG == [ok |-> TRUE, kind |-> "object", canon |-> JSON_WEB]

FILE_CONFIG == [ok |-> TRUE, kind |-> "object", canon |-> JSON_FILE]

\* the Python value a valid text stands for
ConfigOf(text) ==
    CASE text \in {JSON_WEB, JSON_WEB_SPACED} -> WEB_CONFIG
      [] text = JSON_FILE -> FILE_CONFIG
      [] OTHER -> NoJson

ReturnedNone == secrets_result = Returned(NoJson)

BadFile ==
    ~secrets_file.exists \/ ~secrets_file.readable \/ secrets_file.text \notin ValidJsonTexts

\* C18 as stated: the parsed configuration comes from the content variable
\* when it is set and otherwise from the file the path variable names; None is
\* returned only when neither variable is set; ConfigError is raised whenever
\* a set variable holds invalid JSON or names a missing or unparseable file.
C18_Original ==
    secrets_result.done =>
        /\ secrets_result.raised \in {"", "ConfigError"}
        /\ (ReturnedNone => (~env_content.set /\ ~env_path.set))
        /\ ((env_content.set /\ env_content.value \notin ValidJsonTexts)
               => secrets_result = Raised("ConfigError"))
        /\ ((env_path.set /\ BadFile) => secrets_result = Raised("ConfigError"))
        /\ ((env_content.set /\ env_content.value \in ValidJsonTexts)
               => secrets_result = Returned(ConfigOf(env_content.value)))

ContentGiven == env_content.set /\ env_content.value # <<>>

PathGiven == env_path.set /\ env_path.value # <<>>

\* C18: a variable set to the empty string counts as not given.  With the
\* content variable given, its parse is returned, or ConfigError is raised
\* when it is not valid JSON, and the path variable is not looked at.
\* Otherwise, with the path variable given, the parse of the file is
\* returned, or ConfigError is raised when the file is missing, unreadable or
\* not valid JSON.  With neither given, None is returned.  None is also what
\* a document that is the JSON literal null parses to.  A load failure never
\* returns None or a partial value.
C18_SecretsOutcomes ==
    secrets_result.done =>
        /\ secrets_result.raised \in {"", "ConfigError"}
        /\ (secrets_result.raised = "ConfigError" => secrets_result.config = NoJson)
        /\ (ContentGiven =>
               IF env_content.value \in ValidJsonTexts
               THEN secrets_result = Returned(ConfigOf(env_content.value))
               ELSE secrets_result = Raised("ConfigError"))
        /\ ((~ContentGiven /\ PathGiven) =>
               IF BadFile
               THEN secrets_result = Raised("ConfigError")
               ELSE secrets_result = Returned(ConfigOf(secrets_file.text)))
        /\ ((~ContentGiven /\ ~PathGiven) => ReturnedNone)

C18_Witness ==
    /\ secrets_result.done
    /\ env_content = Set(<<>>)
    /\ env_path = Set(SECRETS_PATH)
    /\ secrets_file = File(JSON_FILE)
    /\ secrets_result = Returned(FILE_CONFIG)

(***************************************************************************)
(* Order of the per-item callbacks.                                        *)
(***************************************************************************)
\* two Python dicts are equal: same keys, same value under each key
SameMapping(a, b) ==
    /\ DictKeys(a) = DictKeys(b)
    /\ \A k \in DictKeys(a) : DictValue(a, k) = DictValue(b, k)

Distinct(ids) == \A i, j \in 1..Len(ids) : ids[i] = ids[j] => i = j

RECURSIVE ReplayInSubmissionOrder(_, _)
\* the callbacks that were delivered, run again in the order of batch.add
ReplayInSubmissionOrder(ids, results) ==
    IF ids = <<>> THEN results
    ELSE ReplayInSubmissionOrder(
             Tail(ids),
             IF Head(ids) \in DictKeys(delivered)
             THEN batch_callback(results, Head(ids), DictValue(delivered, Head(ids)))
             ELSE results)

C21_OrderFree ==
    Distinct(chunk_ids)
        => SameMapping(metadata_results, ReplayInSubmissionOrder(chunk_ids, <<>>))

C21_OwnKeyOnly ==
    (bpc = "execute" /\ pending' # pending /\ Distinct(chunk_ids))
        => /\ DictKeys(metadata_results') = DictKeys(metadata_results) \cup (pending \ pending')
           /\ \A k \in DictKeys(metadata_results) \ (pending \ pending') :
                 DictValue(metadata_results', k) = DictValue(metadata_results, k)
           /\ UNCHANGED <<all_metadata_results, emails, chunk_ids, message_ids>>

\* C21: for a chunk of distinct identifiers, the mapping of one batch call is
\* the same whatever the order in which the per-item callbacks ran (it equals
\* the mapping obtained by running them in submission order), and a callback
\* writes only the entry of its own identifier and no other shared state.
C21_CallbacksCommute == [](C21_OrderFree) /\ [][C21_OwnKeyOnly]_vars

\* C21 witness: a call returned after two callbacks with different outcomes
\* ran in the reverse of the submission order.
C21_Witness ==
    /\ CallEnded /\ call_status = "returned"
    /\ Len(chunk_ids) = 2 /\ Distinct(chunk_ids)
    /\ Len(delivered) = 2
    /\ delivered[1].k = chunk_ids[2] /\ delivered[2].k = chunk_ids[1]
    /\ ~ItemFailed(delivered[1].v) /\ ItemFailed(delivered[2].v)
    /\ metadata_results[1].k = chunk_ids[2]

(***************************************************************************)
(* Nodes the decoder looks at.                                             *)
(***************************************************************************)
RECURSIVE InspectedDepths(_, _, _)
\* depths of the nodes whose mimeType or body data _get_body_text reads: the
\* payload of every frame that passes the guard (lines 761-772) and every
\* part its loop visits (part.get("mimeType"), part.get("body") at 777-786);
\* a part that is not taken as a text leaf and is a container is descended
\* into with depth + 1 (lines 789-794)
InspectedDepths(node, depth, maxd) ==
    IF DepthExceeded(depth, maxd) THEN {}
    ELSE {depth}
         \cup (IF HasParts(node)
               THEN UNION { {depth + 1}
                            \cup (IF /\ ~TextPartWithData(node.parts[i])
                                     /\ (HasParts(node.parts[i])
                                           \/ IsMultipart(MimeLower(node.parts[i].mimeType)))
                                  THEN InspectedDepths(node.parts[i], depth + 1, maxd)
                                  ELSE {}) :
                            i \in 1..Len(node.parts) }
               ELSE {})

\* C22 as stated: with max_depth = 10 and the root at depth 0, decoding never
\* inspects a node at depth greater than 10, leaf children read from inside
\* their parent's loop included.
C22_Original ==
    Decoded => \A k \in InspectedDepths(payload, 0, max_depth) : k <= max_depth

(***************************************************************************)
(* Thread context: which messages it holds (claim C23)                     *)
(***************************************************************************)
\* 1-based position of the current message in the list the route uses, or 0
PositionOfCurrent(list) == CurrentMessageIndex(list) + 1

\* the block renders the message: its sender and its (short) body
BlockOf(block, msg) == block.from = msg.from /\ block.body = msg.body

RECURSIVE IsSubsequence(_, _)
\* sub is obtained from full by leaving entries out
IsSubsequence(sub, full) ==
    IF sub = <<>> THEN TRUE
    ELSE IF full = <<>> THEN FALSE
    ELSE IF Head(sub) = Head(full) THEN IsSubsequence(Tail(sub), Tail(full))
    ELSE IsSubsequence(sub, Tail(full))

ListIds(list) == [n \in 1..Len(list) |-> list[n].id]

CURRENT_EMAIL == [label |-> "Current Email", n |-> 0]

\* C24 as stated: every non-empty thread context ends with the current
\* message rendered under a "Current Email" separator, in the format of the
\* context messages (From line with the You / Other party tag, then the
\* body), after all numbered context messages.
C24_Original ==
    (ContextBuilt /\ thread_context # NoContext) =>
        LET last == thread_context.blocks[Len(thread_context.blocks)]
        IN /\ last.separator = CURRENT_EMAIL
           /\ last.from = details.from
           /\ last.body = details.body
           /\ last.sender_type \in {"You", "Other party"}

(***************************************************************************)
(* Thread context: the order of the thread list (claim C25)                *)
(***************************************************************************)
\* C25 as stated: before the current message is located, the fetched thread
\* messages are ordered ascending by their internal chronological marker,
\* whatever order the listing returned them in (and the sort never raises:
\* the request goes on to the decision step).
C25_Original ==
    (ContextBuilt /\ thread_listing # <<>>)
        => details_list = Chronological(details_list)

(***************************************************************************)
(* _parse_suggestions: the post-filter (claim C26)                         *)
(***************************************************************************)
MIN_SUGGESTION_LEN == 10

\* the entry would pass the post-filter of lines 352-370
PassesPostFilter(suggestion) ==
    \/ suggestion.k = "lit"
    \/ /\ Len(suggestion.cps) >= MIN_SUGGESTION_LEN
       /\ ~StartsWith(LowerText(suggestion.cps), SUGGEST_WORD)
       /\ ~StartsWith(LowerText(suggestion.cps), YOU_COULD_WORDS)

\* C26 as stated: the post-filter is applied to the output of whichever
\* strategy produced it, the numbered-line strategy included: no returned
\* entry is shorter than 10 characters or starts with "suggest" or
\* "you could", and when filtering leaves nothing the fixed 3-item fallback
\* list is returned.
C26_Original ==
    parse_result.done =>
        /\ parse_result.suggestions # <<>>
        /\ \A n \in 1..Len(parse_result.suggestions) :
              PassesPostFilter(parse_result.suggestions[n])

(***************************************************************************)
(* Standalone prompts: body truncation (claim C27)                         *)
(***************************************************************************)
Posted == post_count > 0

\* C27: in standalone mode the body embedded in every prompt sent to the
\* backend is the original body when it has at most 4000 characters, and
\* otherwise its first 4000 characters followed by the truncation marker; a
\* longer body is never sent in full, on the first attempt or on a retry.
C27_TruncatedPrompt ==
    (Posted /\ llm_mode = "get_suggestions") =>
        LET sent == last_sent.email_body
            body == details.body
        IN /\ last_sent = prompt
           /\ last_sent.template = "suggestion_prompt_template"
           /\ Len(body) <= max_chars => sent = body
           /\ Len(body) > max_chars =>
                 /\ sent # body
                 /\ Len(sent) = max_chars + Len(TRUNCATION_MARKER)
                 /\ \A n \in 1..max_chars : sent[n] = body[n]
                 /\ \A n \in 1..Len(TRUNCATION_MARKER) :
                       sent[max_chars + n] = TRUNCATION_MARKER[n]
                 /\ \A n \in 1..Len(sent) : sent[n] # "Z"

\* C27 witness: a body of 4001 characters was sent truncated on a first
\* attempt and again on the retry that followed a transient error.
C27_Witness ==
    /\ llm_mode = "get_suggestions"
    /\ details.body = LONG_BODY
    /\ post_count = 2 /\ n_transient >= 1
    /\ Len(last_sent.email_body) = max_chars + Len(TRUNCATION_MARKER)
    /\ llm_state = "done"

(***************************************************************************)
(* LocalLlmService.__init__ over the [Ollama] section of the configuration *)
(***************************************************************************)
\* ConfigurationManager.get: the value, or the fallback (None) when the
\* section or option does not exist (config_manager.py:183-199)
ConfigGet(option) == IF option.present THEN [none |-> FALSE, value |-> option.value] ELSE PyNone

\* int(text) of configparser.getint; raised = ValueError
ParseInt(text) ==
    CASE text = "120" -> [raised |-> FALSE, value |-> 120]
      [] text = "10" -> [raised |-> FALSE, value |-> 10]
      [] text = "5" -> [raised |-> FALSE, value |-> 5]
      [] text = "3" -> [raised |-> FALSE, value |-> 3]
      [] text = "2" -> [raised |-> FALSE, value |-> 2]
      [] OTHER -> [raised |-> TRUE, value |-> 0]

\* ConfigurationManager.getint: int(value), or the fallback when the option
\* does not exist; a ValueError is not caught there (config_manager.py:217-223)
ConfigGetInt(option, fallback) ==
    IF option.present THEN ParseInt(option.value) ELSE [raised |-> FALSE, value |-> fallback]

\* LocalLlmService.__init__ (local_llm_service.py:23-76)
llm_service_init(cfg) ==
    LET request_timeout == ConfigGetInt(cfg.request_timeout_sec, 120)
        status_timeout == ConfigGetInt(cfg.status_timeout_sec, 10)
        retries == ConfigGetInt(cfg.max_retries, 3)
        delay == ConfigGetInt(cfg.retry_delay_sec, 2)
    IN IF request_timeout.raised \/ status_timeout.raised \/ retries.raised \/ delay.raised
       THEN [done |-> TRUE, raised |-> "ConfigError", instance |-> NoInstance]
       ELSE [done |-> TRUE, raised |-> "",
             instance |-> [model_name |-> ConfigGet(cfg.model_name),
                           api_base_url |-> ConfigGet(cfg.api_base_url),
                           suggestion_prompt_template |->
                               ConfigGet(cfg.suggestion_prompt_template),
                           request_timeout |-> request_timeout.value,
                           status_timeout |-> status_timeout.value,
                           max_retries |-> retries.value,
                           retry_delay |-> delay.value]]

\* the [Ollama] sections the constructor is given
OllamaConfigs ==
    [model_name : {Missing, Option("llama3:8b")},
     api_base_url : {Missing, Option("http://localhost:11434")},
     suggestion_prompt_template : {Missing, Option("{email_body}")},
     request_timeout_sec : {Missing, Option("120"), Option("abc")},
     status_timeout_sec : {Missing, Option("10")},
     max_retries : {Missing, Option("5"), Option("three")},
     retry_delay_sec : {Missing, Option("2")}]

ConstructInit ==
    /\ llm_config \in OllamaConfigs
    /\ llm_client = NoClient
    /\ ParseIdle
    /\ SecretsIdle
    /\ DecodeIdle
    /\ BatchIdle
    /\ PipeIdle

\* llm_service = LocalLlmService(config_manager)
ConstructLlmService ==
    /\ ~llm_client.done
    /\ llm_client' = llm_service_init(llm_config)
    /\ UNCHANGED <<llm_config, numbered_items, parse_result, env_content, env_path,
                   secrets_file, secrets_result, decodeVars, batchVars, pipeVars>>

ConstructNext == ConstructLlmService

SpecConstruct == ConstructInit /\ [][ConstructNext]_vars

RequiredMissing ==
    \/ ~llm_config.model_name.present
    \/ ~llm_config.api_base_url.present
    \/ ~llm_config.suggestion_prompt_template.present

\* C28 as stated: constructing the suggestion client when the model name, the
\* backend base URL or the standalone prompt template is missing from the
\* configuration fails with ConfigError; no instance with an unset required
\* field is produced.
C28_Original ==
    (llm_client.done /\ RequiredMissing) =>
        /\ llm_client.raised = "ConfigError"
        /\ llm_client.instance = NoInstance

(***************************************************************************)
(* Unauthenticated requests (claim C29)                                    *)
(***************************************************************************)
\* the calls that reach the mail service or the generation backend
RemoteCalls ==
    {"get_gmail_service", "list_messages", "get_message_details",
     "get_multiple_messages_metadata", "get_user_email", "archive_message",
     "delete_message", "send_email", "modify_message_labels", "get_suggestions",
     "get_suggestions_with_context", "requests.post"}

\* C29: on every email route (list, get, suggestions, archive, delete, send,
\* modify), when check_auth_status is false the request ends with AuthError
\* and makes no call to the mail service or to the generation backend.
C29_AuthFirst ==
    auth_status = "no" =>
        /\ route \in Routes
        /\ RequestEnded
        /\ responses = <<Failure(NOT_AUTHENTICATED)>>
        /\ calls = <<"check_auth_status">>
        /\ \A i \in 1..Len(calls) : calls[i] \notin RemoteCalls
        /\ ~DetailsFetched
        /\ ~BackendCalled
        /\ post_count = 0

\* C29 witness: an unauthenticated request to the send route ended with
\* AuthError.
C29_Witness ==
    /\ auth_status = "no"
    /\ route = "send"
    /\ RequestEnded
    /\ responses[1].error.class = "AuthError"

(***************************************************************************)
(* The user's address cannot be retrieved (claim C30)                      *)
(***************************************************************************)
\* user_email holds None (get_user_email returned it, once it was called)
AddressUnknown == user_email = <<>>

====
